---- MODULE Spec2Model ----
(***************************************************************************)
(* A model of the Corus/IFLAG client of pwitab/iflag.                      *)
(*                                                                         *)
(* Part 1: the multi-frame database transfer, CorusClient._read_database_  *)
(* data (src/iflag/client.py:293-384), together with the CRC-16 of         *)
(* src/iflag/utils.py that decides which frames are accepted.  The device  *)
(* is the environment: it answers the request, and every ACK or NACK, with *)
(* one frame drawn from FramePool.                                         *)
(* Part 2: the request messages of src/iflag/messages.py.                  *)
(* Part 3: the session, startup, read_parameters, write_parameters and     *)
(* shutdown.                                                               *)
(* Part 4: the typed values of src/iflag/data.py and the parser of         *)
(* src/iflag/parse.py.                                                     *)
(* Part 5: the entry of read_database.                                     *)
(* Part 6: recv of the TCP transport (src/iflag/transport.py).             *)
(* Part 7: the database transfer against a device that never stops.       *)
(***************************************************************************)
EXTENDS Integers, Sequences, FiniteSets, TLC

(***************************************************************************)
(* Bytes and Python's bytes operations                                     *)
(***************************************************************************)

\* b[lo:hi] of Python, 0-based, hi exclusive, clamped to the length of b.
Slice(b, lo, hi) ==
  LET h == IF hi < Len(b) THEN hi ELSE Len(b)
  IN  IF lo >= h THEN <<>> ELSE SubSeq(b, lo + 1, h)

\* b[lo:] of Python.
SliceFrom(b, lo) == Slice(b, lo, Len(b))

RECURSIVE FromBytesLittle(_)
\* int.from_bytes(b, "little"); the empty string gives 0.
FromBytesLittle(b) ==
  IF b = <<>> THEN 0 ELSE Head(b) + 256 * FromBytesLittle(Tail(b))

RECURSIVE FromBytesBig(_)
\* int.from_bytes(b, "big"); the empty string gives 0.
FromBytesBig(b) ==
  IF b = <<>> THEN 0 ELSE Head(b) * (256 ^ (Len(b) - 1)) + FromBytesBig(Tail(b))

(***************************************************************************)
(* CRC-16 (src/iflag/utils.py:5-44).  Python's integers are unbounded and  *)
(* crc16 masks only once, after the loop.  The accumulator is kept whole:  *)
(* lo is its low 16 bits, hi the bits above them (hi[1] is bit 16).        *)
(***************************************************************************)

RECURSIVE XorInt(_, _)
\* a ^ b on natural numbers
XorInt(a, b) ==
  IF a = 0 THEN b
  ELSE IF b = 0 THEN a
  ELSE (((a % 2) + (b % 2)) % 2) + 2 * XorInt(a \div 2, b \div 2)

\* acc ^ x, for x below 2^16
XorLow(acc, x) == [hi |-> acc.hi, lo |-> XorInt(acc.lo, x)]

\* acc << 1
Shl1(acc) == [hi |-> <<acc.lo \div 32768>> \o acc.hi, lo |-> (acc.lo * 2) % 65536]

\* polynomial = 0x8005
polynomial == 32773

\* F(arg), with arg evaluated once and before F is applied.
Strict(F(_), arg) == CHOOSE y \in {F(x) : x \in {arg}} : TRUE

\* One round of the inner loop, utils.py:17-20.
crc16_round(acc) ==
  IF acc.lo \div 32768 = 1                        \* crc & 0b1000000000000000
  THEN XorLow(Shl1(acc), polynomial)
  ELSE Shl1(acc)

\* A slip: the test looks at the top bit of the accumulator as it has grown,
\* not at bit 15.
crc16_round_top(acc) ==
  IF acc.lo \div 32768 = 1 /\ acc.hi = <<>>
  THEN XorLow(Shl1(acc), polynomial)
  ELSE Shl1(acc)

RECURSIVE crc16_shift_top(_, _)
\* The slip, in every round of the inner loop.
crc16_shift_top(acc, n) ==
  IF n = 0 THEN acc
  ELSE Strict(LAMBDA x : crc16_shift_top(crc16_round_top(x), n - 1), acc)

RECURSIVE crc16_shift(_, _)
\* The inner loop, `for _ in range(0, 8)`, with n rounds left.
crc16_shift(acc, n) ==
  IF n = 0 THEN acc
  ELSE Strict(LAMBDA x : crc16_shift(crc16_round(x), n - 1), acc)

RECURSIVE crc16_loop(_, _)
\* The outer loop, `for b in data`, with crc ^= b << 8.
crc16_loop(acc, data) ==
  IF data = <<>> THEN acc
  ELSE Strict(LAMBDA crc : crc16_loop(crc, Tail(data)),
              crc16_shift(XorLow(acc, Head(data) * 256), 8))

\* A slip in the byte order: the high byte first.
crc16_big(data) ==
  LET crc == crc16_loop([hi |-> <<>>, lo |-> 0], data).lo
  IN  <<crc \div 256, crc % 256>>

\* crc16(data) with initial_value 0 and byteorder "little": crc &= 0xFFFF,
\* then the two bytes, low byte first.
crc16(data) ==
  LET crc == crc16_loop([hi |-> <<>>, lo |-> 0], data).lo
  IN  <<crc % 256, crc \div 256>>

\* A slip in the byte order of the CRC.
add_crc_big(data) == data \o <<crc16(data)[2], crc16(data)[1]>>

\* utils.py:28-33
add_crc(data) == data \o crc16(data)

\* A slip: the CRC never looked at.
crc_valid_always(data, crc) == TRUE

\* utils.py:36-44
crc_valid(data, crc) == crc = crc16(data)

(***************************************************************************)
(* Control bytes, as the literals of client.py                             *)
(***************************************************************************)
SOH == 1
ETX == 3
ACK == 6
NACK == 21

(***************************************************************************)
(* The device: the frames it may put on the wire.                          *)
(***************************************************************************)

\* The most frames the device sends in one transfer.
MaxFrames == 5

\* Frame numbers the device uses in a frame header.
FrameNumbers == {0, 1, 2}

\* What follows the two header bytes of a payload.  In the first frame the
\* first of these bytes is record_size; everywhere else all of them are data.
Bodies == {<<0>>, <<2, 5>>}

\* The little-endian header: low 15 bits the frame number, bit 15 "last".
Header(fn, last) ==
  LET h == fn + (IF last THEN 32768 ELSE 0) IN <<h % 256, h \div 256>>

\* Well-framed payloads: header and body, or shorter than a header.
Payloads ==
  {Header(fn, last) \o b : fn \in FrameNumbers, last \in BOOLEAN, b \in Bodies}
    \cup {<<>>, <<1>>}

\* A frame of the device: its payload, whether the CRC that follows it is the
\* right one, and the two framing bytes.
FramePool ==
  {[payload |-> p, crc_ok |-> k, soh |-> SOH, etx |-> ETX] :
      p \in Payloads, k \in BOOLEAN}
    \cup {[payload |-> Header(0, FALSE) \o <<2, 5>>, crc_ok |-> TRUE,
           soh |-> 2, etx |-> ETX],
          [payload |-> Header(0, FALSE) \o <<2, 5>>, crc_ok |-> TRUE,
           soh |-> SOH, etx |-> 4]}

\* The bytes of frame f on the wire: SOH, length, payload, ETX, CRC.  A frame
\* damaged in transit carries a CRC that does not match its bytes.
WireBytes(f) ==
  LET body == <<f.soh, Len(f.payload)>> \o f.payload \o <<f.etx>>
      c    == crc16(body)
  IN  body \o (IF f.crc_ok THEN c ELSE <<(c[1] + 1) % 256, c[2]>>)

Wire == [f \in FramePool |-> WireBytes(f)]

(***************************************************************************)
(* State                                                                   *)
(***************************************************************************)
VARIABLES
  pc,                     \* where _read_database_data stands
  _data, record_size, read_next, is_first_frame, retry_count,
  previous_frame_number, current_frame_number,
  in_bytes, first_char, length, frame_data, frame_number_data, end_char, crc,
  records,                \* the value returned
  error,                  \* the exception raised, "" while there is none
  rx,                     \* transport: bytes sent by the device, not yet read
  sent,                   \* transport: bytes this call has written
  \* history of the device's side, for stating the claims
  nframes,                \* frames the device has sent
  frame,                  \* the frame in flight: sent and not yet answered
  sent_at_frame,          \* Len(sent) when that frame was sent
  valid_seen,             \* CRC-valid frames delivered so far
  last_acked,             \* the frame number of the last frame ACKed, or -1
  good,                   \* record-data of the CRC-valid frames, in order
  all_valid,              \* every frame sent so far was CRC-valid
  stream,                 \* the frames sent so far, while all_valid
  \* the session: the public operations and the transport they drive
  op,                     \* the public operation called last, "" before any
  nops,                   \* public operations called so far
  log,                    \* the transport's events, oldest first
  log_at_call,            \* Len(log) when the operation was called
  parameters,             \* the argument of write_parameters, as WriteData
  response, ident, pass_msg, ack,     \* locals of _wakeup and startup
  start_char_received,    \* local of simple_read
  authenticated,          \* history: a startup has succeeded, and no
                          \* startup or shutdown has been called since
  \* the message builders
  request,                \* the request object whose to_bytes was called
  message,                \* what to_bytes returned
  \* the typed values and the parser
  call,                   \* the function called and its arguments
  result,                 \* what it returned or raised
  \* the client's configuration
  _input_pulse_weight,    \* self._input_pulse_weight
  database_layout,        \* self.database_layout
  socket                  \* the TCP connection: the bytes on their way, and
                          \* whether the peer has it open

locals == <<in_bytes, first_char, length, frame_data, frame_number_data,
            end_char, crc>>
dbstate == <<_data, record_size, read_next, is_first_frame, retry_count,
             previous_frame_number, current_frame_number>>
history == <<nframes, frame, sent_at_frame, valid_seen, last_acked, good,
             all_valid, stream>>
session == <<op, nops, log, log_at_call, parameters, response, ident, pass_msg,
             ack, start_char_received, authenticated>>
messages == <<request, message>>
codec == <<call, result>>
settings == <<_input_pulse_weight, database_layout, socket>>
vars == <<pc, dbstate, locals, records, error, rx, sent, history, session,
          messages, codec, settings>>

NoFrame == [payload |-> <<>>, crc_ok |-> FALSE, soh |-> 0, etx |-> 0]

\* The frame is well framed and carries the CRC of its bytes.
Valid(f) == f.crc_ok /\ f.soh = SOH /\ f.etx = ETX
\* Well framed, with a CRC that does not match.
CrcFailed(f) == ~f.crc_ok /\ f.soh = SOH /\ f.etx = ETX
\* The header fields of a frame, as the protocol defines them.
FrameNo(f) == FromBytesLittle(Slice(f.payload, 0, 2)) % 32768
IsLast(f) == (FromBytesLittle(Slice(f.payload, 0, 2)) \div 32768) % 2 = 1

\* No public operation called, no message built.
NoSession ==
  /\ op = "" /\ nops = 0 /\ log = <<>> /\ log_at_call = 0
  /\ parameters = <<>>
  /\ response = <<>> /\ ident = <<>> /\ pass_msg = <<>> /\ ack = <<>>
  /\ start_char_received = FALSE /\ authenticated = FALSE
NoMessage == request = [kind |-> ""] /\ message = <<>>
\* No connection.
NoSocket == [wire |-> <<>>, open |-> FALSE]

NoCall ==
  /\ call = [fn |-> ""] /\ result = [t |-> ""]
  /\ _input_pulse_weight = "None" /\ database_layout = "None"
  /\ socket = NoSocket

\* _read_database_data not entered.
NoTransfer ==
  /\ _data = <<>> /\ record_size = 0 /\ read_next = TRUE
  /\ is_first_frame = TRUE /\ retry_count = 0
  /\ previous_frame_number = 0 /\ current_frame_number = -1
  /\ in_bytes = <<>> /\ first_char = <<>> /\ length = <<>>
  /\ frame_data = <<>> /\ frame_number_data = <<>> /\ end_char = <<>>
  /\ crc = <<>>
  /\ records = <<>> /\ error = ""
  /\ rx = <<>> /\ sent = <<>>
  /\ nframes = 0 /\ frame = NoFrame /\ sent_at_frame = 0 /\ valid_seen = 0
  /\ last_acked = -1
  /\ good = <<>> /\ all_valid = TRUE /\ stream = <<>>

Init == pc = "call" /\ NoTransfer /\ NoSession /\ NoMessage /\ NoCall

(***************************************************************************)
(* The device answers: one frame, complete, while the client waits for the *)
(* first byte of a frame (the protocol is half duplex).                    *)
(***************************************************************************)
DeviceSendFrame ==
  /\ pc = "recv_first_char" /\ rx = <<>> /\ nframes < MaxFrames
  /\ \E f \in FramePool :
       /\ rx' = Wire[f]
       /\ frame' = f
       /\ valid_seen' = IF Valid(f) THEN valid_seen + 1 ELSE valid_seen
       /\ good' = IF Valid(f)
                  THEN good \o SliceFrom(f.payload, IF valid_seen = 0 THEN 3 ELSE 2)
                  ELSE good
       /\ all_valid' = (all_valid /\ Valid(f))
       /\ stream' = IF all_valid' THEN Append(stream, f) ELSE <<>>
  /\ nframes' = nframes + 1
  /\ sent_at_frame' = Len(sent)
  /\ UNCHANGED <<pc, dbstate, locals, records, error, sent, last_acked>>
  /\ UNCHANGED <<session, messages, codec, settings>>

(***************************************************************************)
(* CorusClient._read_database_data, statement by statement                 *)
(***************************************************************************)

\* transport.recv(n) blocks until the n bytes are there.
CanRecv(n) == Len(rx) >= n

Raise(e) == error' = e /\ pc' = "raised"

\* The exceptions _read_database_data raises (client.py:315, 329, 339, 347, 362).
NotSOH == "ProtocolError: first char is not SOH"
NotETX == "ProtocolError: end char not ETX"
EmptyResponse == "ProtocolError: Empty response"
OutOfOrder == "ProtocolError: Data frames not received in order"
MaxRetries == "CommunicationError: Maximum amounts of retries done. Aborting."

\* The exceptions of the session (client.py:123, 203, 229).
WriteNotAccepted == "CommunicationError: Error in sending"
NonNullWakeup == "ProtocolError: Received non null wakeup response"
NoSignOnAck == "ProtocolError: Ack not received after sign on"

\* The exceptions of _read_response_data (client.py:265, 274, 289) and what
\* read_parameters and read_database make of them (client.py:72, 167).
FailedCrc == "ProtocolError: Failed CRC check"
CorusClientError == "CorusClientError"
ProtocolErrors ==
  {NotSOH, NotETX, FailedCrc, EmptyResponse, OutOfOrder, NonNullWakeup,
   NoSignOnAck}
CommunicationErrors == {MaxRetries, WriteNotAccepted}

\* client.py:71-72 and 166-167: except (ProtocolError, CommunicationError)
\* as e: raise CorusClientError from e
Wrapped(e) ==
  IF e \in ProtocolErrors \cup CommunicationErrors THEN CorusClientError ELSE e

\* client.py:300-308
StartRead ==
  /\ pc = "call"
  /\ _data' = <<>> /\ record_size' = 0 /\ read_next' = TRUE
  /\ is_first_frame' = TRUE /\ retry_count' = 0
  /\ previous_frame_number' = 0 /\ current_frame_number' = -1
  /\ pc' = "recv_first_char"
  /\ UNCHANGED <<locals, records, error, rx, sent, history>>
  /\ UNCHANGED <<session, messages, codec, settings>>

\* client.py:311-315
RecvFirstChar ==
  /\ pc = "recv_first_char" /\ CanRecv(1)
  /\ in_bytes' = <<>>
  /\ first_char' = Slice(rx, 0, 1) /\ rx' = SliceFrom(rx, 1)
  /\ IF first_char' # <<SOH>>
     THEN Raise(NotSOH)
     ELSE pc' = "recv_length" /\ error' = error
  /\ UNCHANGED <<dbstate, length, frame_data, frame_number_data, end_char, crc,
                 records, sent, history>>
  /\ UNCHANGED <<session, messages, codec, settings>>

\* client.py:317
RecvLength ==
  /\ pc = "recv_length" /\ CanRecv(1)
  /\ length' = Slice(rx, 0, 1) /\ rx' = SliceFrom(rx, 1)
  /\ pc' = "recv_frame_data"
  /\ UNCHANGED <<dbstate, in_bytes, first_char, frame_data, frame_number_data,
                 end_char, crc, records, error, sent, history>>
  /\ UNCHANGED <<session, messages, codec, settings>>

\* client.py:318
frame_data_length == FromBytesBig(length)

\* client.py:319-325
RecvFrameData ==
  /\ pc = "recv_frame_data" /\ CanRecv(frame_data_length)
  /\ frame_data' = Slice(rx, 0, frame_data_length)
  /\ rx' = SliceFrom(rx, frame_data_length)
  /\ frame_number_data' = Slice(frame_data', 0, 2)
  /\ current_frame_number' = FromBytesLittle(frame_number_data') % 32768
  /\ pc' = "recv_end_char"
  /\ UNCHANGED <<_data, record_size, read_next, is_first_frame, retry_count,
                 previous_frame_number, in_bytes, first_char, length, end_char,
                 crc, records, error, sent, history>>
  /\ UNCHANGED <<session, messages, codec, settings>>

\* client.py:327-331
RecvEndChar ==
  /\ pc = "recv_end_char" /\ CanRecv(1)
  /\ end_char' = Slice(rx, 0, 1) /\ rx' = SliceFrom(rx, 1)
  /\ IF end_char' # <<ETX>>
     THEN Raise(NotETX) /\ in_bytes' = in_bytes
     ELSE /\ in_bytes' = in_bytes \o first_char \o length \o frame_data \o end_char'
          /\ pc' = "frame_data" /\ error' = error
  /\ UNCHANGED <<dbstate, first_char, length, frame_data, frame_number_data, crc,
                 records, sent, history>>
  /\ UNCHANGED <<session, messages, codec, settings>>

\* A slip in the ordering check: the successor taken modulo 2^15.
InOrder_wrap(current, previous) == current = (previous + 1) % 32768

\* A slip in the ordering check: any larger frame number is taken.
InOrder_gap(current, previous) == current > previous

\* client.py:346, the ordering check
InOrder(current, previous) == current = previous + 1

\* A slip in the offsets: the first frame's record_size byte kept as data.
RecordData_offset(first, fd) == SliceFrom(fd, 2)

\* client.py:342 and 345, the record-data of a frame
RecordData(first, fd) == IF first THEN SliceFrom(fd, 3) ELSE SliceFrom(fd, 2)

\* A slip: the empty response goes unnoticed.
IsEmpty_never(size) == FALSE

\* client.py:336
IsEmpty(size) == size = 0

\* client.py:333-347
AppendFrameData ==
  /\ pc = "frame_data"
  /\ IF is_first_frame
     THEN /\ record_size' = FromBytesBig(Slice(frame_data, 2, 3))
          /\ IF IsEmpty(record_size')
             THEN Raise(EmptyResponse) /\ _data' = _data
             ELSE /\ _data' = _data \o RecordData(TRUE, frame_data)
                  /\ pc' = "recv_crc" /\ error' = error
     ELSE /\ record_size' = record_size
          /\ _data' = _data \o RecordData(FALSE, frame_data)
          /\ IF ~InOrder(current_frame_number, previous_frame_number)
             THEN Raise(OutOfOrder)
             ELSE pc' = "recv_crc" /\ error' = error
  /\ UNCHANGED <<read_next, is_first_frame, retry_count, previous_frame_number,
                 current_frame_number, locals, records, rx, sent, history>>
  /\ UNCHANGED <<session, messages, codec, settings>>

\* client.py:349
RecvCrc ==
  /\ pc = "recv_crc" /\ CanRecv(2)
  /\ crc' = Slice(rx, 0, 2) /\ rx' = SliceFrom(rx, 2)
  /\ pc' = "crc_check"
  /\ UNCHANGED <<dbstate, in_bytes, first_char, length, frame_data,
                 frame_number_data, end_char, records, error, sent, history>>
  /\ UNCHANGED <<session, messages, codec, settings>>

\* A slip: the retries are never counted out.
RetriesExhausted_never(retries) == FALSE

\* A slip in the budget: one retry short.
RetriesExhausted_early(retries) == retries >= 2

\* client.py:361
RetriesExhausted(retries) == retries >= 3

\* client.py:370-372
is_last_frame == (FromBytesLittle(frame_number_data) \div 32768) % 2 = 1

\* A slip: the frame that uses up the retries is NACKed before the error.
CrcFailure_nack_then_raise ==
  /\ pc = "crc_check" /\ ~crc_valid(in_bytes, crc)
  /\ sent' = Append(sent, NACK)
  /\ IF RetriesExhausted(retry_count)
     THEN /\ Raise(MaxRetries)
          /\ UNCHANGED <<retry_count, frame>>
     ELSE /\ retry_count' = retry_count + 1
          /\ pc' = "recv_first_char" /\ error' = error
          /\ frame' = NoFrame
  /\ UNCHANGED <<_data, record_size, read_next, is_first_frame,
                 previous_frame_number, current_frame_number, locals, records,
                 rx, nframes, sent_at_frame, valid_seen, last_acked, good,
                 all_valid, stream>>
  /\ UNCHANGED <<session, messages, codec, settings>>

\* client.py:355-367, the frame failed the CRC check
CrcFailure ==
  /\ pc = "crc_check" /\ ~crc_valid(in_bytes, crc)
  /\ IF RetriesExhausted(retry_count)
     THEN /\ Raise(MaxRetries)
          /\ UNCHANGED <<sent, retry_count, frame>>
     ELSE /\ sent' = Append(sent, NACK)
          /\ retry_count' = retry_count + 1
          /\ pc' = "recv_first_char" /\ error' = error
          /\ frame' = NoFrame
  /\ UNCHANGED <<_data, record_size, read_next, is_first_frame,
                 previous_frame_number, current_frame_number, locals, records,
                 rx, nframes, sent_at_frame, valid_seen, last_acked, good,
                 all_valid, stream>>
  /\ UNCHANGED <<session, messages, codec, settings>>

\* A slip: the terminal frame is acknowledged like any other.
CrcSuccess_ack_last ==
  /\ pc = "crc_check" /\ crc_valid(in_bytes, crc)
  /\ is_first_frame' = FALSE
  /\ IF is_last_frame
     THEN /\ read_next' = FALSE
          /\ pc' = "split"
          /\ sent' = Append(sent, ACK)
          /\ UNCHANGED <<retry_count, previous_frame_number, frame, last_acked>>
     ELSE /\ sent' = Append(sent, ACK)
          /\ retry_count' = 0
          /\ previous_frame_number' = current_frame_number
          /\ pc' = "recv_first_char"
          /\ read_next' = read_next
          /\ last_acked' = FrameNo(frame) /\ frame' = NoFrame
  /\ UNCHANGED <<_data, record_size, current_frame_number, locals, records,
                 error, rx, nframes, sent_at_frame, valid_seen, good, all_valid,
                 stream>>
  /\ UNCHANGED <<session, messages, codec, settings>>

\* client.py:369-379, the frame passed the CRC check
CrcSuccess ==
  /\ pc = "crc_check" /\ crc_valid(in_bytes, crc)
  /\ is_first_frame' = FALSE
  /\ IF is_last_frame
     THEN /\ read_next' = FALSE
          /\ pc' = "split"
          /\ UNCHANGED <<sent, retry_count, previous_frame_number, frame,
                         last_acked>>
     ELSE /\ sent' = Append(sent, ACK)
          /\ retry_count' = 0
          /\ previous_frame_number' = current_frame_number
          /\ pc' = "recv_first_char"
          /\ read_next' = read_next
          /\ last_acked' = FrameNo(frame) /\ frame' = NoFrame
  /\ UNCHANGED <<_data, record_size, current_frame_number, locals, records,
                 error, rx, nframes, sent_at_frame, valid_seen, good, all_valid,
                 stream>>
  /\ UNCHANGED <<session, messages, codec, settings>>

RECURSIVE Chunks(_, _)
\* [d[i : i + size] for i in range(0, len(d), size)], size >= 1
Chunks(d, size) ==
  IF d = <<>> THEN <<>>
  ELSE <<Slice(d, 0, size)>> \o Chunks(SliceFrom(d, size), size)

\* client.py:381-384; range() refuses a step of 0
SplitRecords ==
  /\ pc = "split" /\ ~read_next
  /\ IF record_size = 0
     THEN Raise("ValueError: range() arg 3 must not be zero") /\ records' = records
     ELSE records' = Chunks(_data, record_size) /\ pc' = "returned" /\ error' = error
  /\ UNCHANGED <<dbstate, locals, rx, sent, history>>
  /\ UNCHANGED <<session, messages, codec, settings>>

\* client.py:166-167, around _read_database_data: what read_database raises
\* to its caller.
ReadDatabaseExcept ==
  /\ pc = "raised"
  /\ error' = Wrapped(error) /\ pc' = "failed"
  /\ UNCHANGED <<dbstate, locals, records, rx, sent, history>>
  /\ UNCHANGED <<session, messages, codec, settings>>

Next ==
  \/ StartRead
  \/ DeviceSendFrame
  \/ RecvFirstChar
  \/ RecvLength
  \/ RecvFrameData
  \/ RecvEndChar
  \/ AppendFrameData
  \/ RecvCrc
  \/ CrcFailure
  \/ CrcSuccess
  \/ SplitRecords
  \/ ReadDatabaseExcept

Spec == Init /\ [][Next]_vars


(***************************************************************************)
(* Part 2: the request messages (src/iflag/messages.py) and the date       *)
(* encoding they use (src/iflag/utils.py:47-82).                           *)
(***************************************************************************)

RECURSIVE OrInt(_, _)
\* a | b on natural numbers
OrInt(a, b) ==
  IF a = 0 THEN b
  ELSE IF b = 0 THEN a
  ELSE (IF (a % 2) + (b % 2) > 0 THEN 1 ELSE 0) + 2 * OrInt(a \div 2, b \div 2)

RECURSIVE AndInt(_, _)
\* a & b on natural numbers
AndInt(a, b) ==
  IF a = 0 \/ b = 0 THEN 0
  ELSE ((a % 2) * (b % 2)) + 2 * AndInt(a \div 2, b \div 2)

RECURSIVE ToBytesLittle(_, _)
\* v.to_bytes(n, "little"), for a v that fits
ToBytesLittle(v, n) ==
  IF n = 0 THEN <<>> ELSE <<v % 256>> \o ToBytesLittle(v \div 256, n - 1)

RECURSIVE ToBytesBig(_, _)
\* v.to_bytes(n, "big"), for a v that fits
ToBytesBig(v, n) ==
  IF n = 0 THEN <<>> ELSE ToBytesBig(v \div 256, n - 1) \o <<v % 256>>

\* A slip in the threshold: 239 itself taken for a one-byte id.
id_to_bytes_threshold(parameter_id) ==
  IF parameter_id <= 239
  THEN ToBytesBig(parameter_id, 1)
  ELSE ToBytesBig(OrInt(parameter_id, 61440), 2)

\* messages.py:32-35, what one parameter id adds to id_bytes
id_to_bytes(parameter_id) ==
  IF parameter_id < 239
  THEN ToBytesBig(parameter_id, 1)
  ELSE ToBytesBig(OrInt(parameter_id, 61440), 2)

RECURSIVE id_bytes(_)
\* messages.py:30-35, the loop over parameter_ids
id_bytes(parameter_ids) ==
  IF parameter_ids = <<>> THEN <<>>
  ELSE id_to_bytes(Head(parameter_ids)) \o id_bytes(Tail(parameter_ids))

\* ReadRequest.to_bytes, messages.py:29-40
ReadRequest_to_bytes(parameter_ids) ==
  LET size == ToBytesBig(Len(id_bytes(parameter_ids)), 1)
  IN  add_crc(<<1, 191>> \o size \o id_bytes(parameter_ids) \o <<3>>)

\* WriteData.to_bytes, messages.py:53-57
WriteData_to_bytes(item) ==
  IF item.id < 239
  THEN ToBytesBig(item.id, 1) \o item.data
  ELSE ToBytesBig(OrInt(item.id, 61440), 2)

RECURSIVE data_bytes(_)
\* messages.py:69, b"".join([item.to_bytes() for item in self.data])
data_bytes(data) ==
  IF data = <<>> THEN <<>>
  ELSE WriteData_to_bytes(Head(data)) \o data_bytes(Tail(data))

\* A slip in the size: the items counted, not their bytes.
WriteRequest_to_bytes_count(data) ==
  add_crc(<<1, 255>> \o ToBytesLittle(Len(data), 1) \o data_bytes(data) \o <<3>>)

\* WriteRequest.to_bytes, messages.py:68-74
WriteRequest_to_bytes(data) ==
  LET size == ToBytesLittle(Len(data_bytes(data)), 1)
  IN  add_crc(<<1, 255>> \o size \o data_bytes(data) \o <<3>>)

\* ReadDatabaseRequest.db_id_map, messages.py:93-100
db_id_map ==
  [interval |-> 0, hourly |-> 1, daily |-> 2, monthly |-> 3, event |-> 4,
   parameter |-> 5]

\* The names of db_id_map.
Databases == {"interval", "hourly", "daily", "monthly", "event", "parameter"}

\* A slip: the session-persistence mask applied although the flag is off.
db_byte_masked(database, session_persistence, count_records) ==
  ToBytesBig(AndInt(db_id_map[database], 128), 1)

\* ReadDatabaseRequest.db_byte, messages.py:112-126 (the flags mask with &=)
db_byte(database, session_persistence, count_records) ==
  LET b0 == db_id_map[database]
      b1 == IF session_persistence THEN AndInt(b0, 128) ELSE b0
      b2 == IF count_records THEN AndInt(b1, 16) ELSE b1
  IN  ToBytesBig(b2, 1)

\* messages.py:110
options_bitmask == <<249, 255, 255, 255>>

\* A datetime, and Python's None in its place.
None == [year |-> 0, month |-> 0, day |-> 0, hour |-> 0, minute |-> 0,
         second |-> 0]

\* utils.py:59-80, the packed integer of a date: second, minute << 6,
\* hour << 12, day << 17 and month << 22 summed in lo, year - 2000 in hi;
\* total_value is hi * 2^26 + lo.  A datetime keeps lo below 2^26.
total_value(date) ==
  [hi |-> date.year - 2000,
   lo |-> date.second + date.minute * (2 ^ 6) + date.hour * (2 ^ 12)
            + date.day * (2 ^ 17) + date.month * (2 ^ 22)]

\* utils.py:81, to_bytes(4, "little") raises OverflowError unless
\* 0 <= total_value < 2^32.
date_fits(date) ==
  date = None \/ (total_value(date).hi >= 0 /\ total_value(date).hi < 64)

\* date_to_byte, utils.py:47-82
date_to_byte(date) ==
  IF date = None THEN <<0, 0, 0, 0>>
  ELSE LET v == total_value(date)
       IN  ToBytesLittle(v.lo % (2 ^ 24), 3)
             \o <<(v.lo \div (2 ^ 24)) + v.hi * 4>>

\* ReadDatabaseRequest.to_bytes, messages.py:102-110 and 128-138
ReadDatabaseRequest_to_bytes(database, start, stop) ==
  add_crc(<<1, 190, 13>> \o db_byte(database, FALSE, FALSE) \o options_bitmask
            \o date_to_byte(start) \o date_to_byte(stop) \o <<3>>)

\* The most parameter ids in a ReadRequest, and items in a WriteRequest.
MaxItems == 2

\* The sequences over S of length at most n.
SeqsUpTo(S, n) == UNION {[1..k -> S] : k \in 0..n}

\* Parameter ids on both sides of 239, up to the end of the id domain.
Ids == {0, 148, 238, 239, 4095, 65535}

\* Encoded values of a WriteData.
Values == {<<7>>, <<1, 2>>}

WriteDatas == {[id |-> i, data |-> d] : i \in Ids, d \in Values}

Date(y, mo, d, h, mi, sec) ==
  [year |-> y, month |-> mo, day |-> d, hour |-> h, minute |-> mi,
   second |-> sec]

\* start and stop of a ReadDatabaseRequest; the last is past the range of
\* the four bytes.
Dates ==
  {None, Date(2000, 1, 1, 0, 0, 0), Date(2021, 12, 31, 23, 59, 59),
   Date(2064, 1, 1, 0, 0, 0)}

\* The request objects to_bytes is called on.
Requests ==
  {[kind |-> "ReadRequest", parameter_ids |-> ids] :
      ids \in SeqsUpTo(Ids, MaxItems)}
    \cup {[kind |-> "WriteRequest", data |-> items] :
            items \in SeqsUpTo(WriteDatas, MaxItems)}
    \cup {[kind |-> "ReadDatabaseRequest", database |-> db, start |-> a,
           stop |-> b] : db \in Databases, a \in Dates, b \in Dates}

MessagesInit ==
  /\ pc = "to_bytes" /\ NoTransfer /\ NoSession /\ NoCall
  /\ request \in Requests /\ message = <<>>

\* What a message builder leaves alone.
not_messages ==
  <<dbstate, locals, records, rx, sent, history, session, codec, settings>>

ReadRequestToBytes ==
  /\ pc = "to_bytes" /\ request.kind = "ReadRequest"
  /\ message' = ReadRequest_to_bytes(request.parameter_ids)
  /\ pc' = "built"
  /\ UNCHANGED <<request, error, not_messages>>

WriteRequestToBytes ==
  /\ pc = "to_bytes" /\ request.kind = "WriteRequest"
  /\ message' = WriteRequest_to_bytes(request.data)
  /\ pc' = "built"
  /\ UNCHANGED <<request, error, not_messages>>

ReadDatabaseRequestToBytes ==
  /\ pc = "to_bytes" /\ request.kind = "ReadDatabaseRequest"
  /\ IF date_fits(request.start) /\ date_fits(request.stop)
     THEN /\ message' = ReadDatabaseRequest_to_bytes(request.database,
                                                     request.start, request.stop)
          /\ pc' = "built" /\ error' = error
     ELSE /\ Raise("OverflowError: int too big to convert")
          /\ message' = message
  /\ UNCHANGED <<request, not_messages>>

MessagesNext ==
  \/ ReadRequestToBytes
  \/ WriteRequestToBytes
  \/ ReadDatabaseRequestToBytes

MessagesSpec == MessagesInit /\ [][MessagesNext]_vars

(***************************************************************************)
(* Part 3: the session.  startup, write_parameters and shutdown of         *)
(* CorusClient (src/iflag/client.py:101-125 and 191-238) on a transport    *)
(* whose recv(n) blocks until n bytes are there, and read_parameters with  *)
(* _read_response_data (client.py:59-75 and 240-291).  The caller may call *)
(* the operations in any order; the device answers each request with one   *)
(* reply.  Time is not modelled: every reply comes within the transport's  *)
(* timeout.                                                                *)
(***************************************************************************)

\* The most public operations the caller calls.
MaxOps == 2

\* One event of the transport: connect, send, recv or disconnect.
Ev(kind, data) == [ev |-> kind, data |-> data]

\* transport.send(data)
Send(data) == log' = Append(log, Ev("send", data))

\* transport.recv(n), the n bytes being there
Recv(n) ==
  /\ rx' = SliceFrom(rx, n)
  /\ log' = Append(log, Ev("recv", Slice(rx, 0, n)))

\* The operation ends: it returns, or it raises e.
Return == pc' = "idle" /\ error' = ""
Fail(e) == pc' = "idle" /\ error' = e

\* client.py:198, bytes(200)
wakeup_data == [i \in 1..200 |-> 0]
\* client.py:219, b"/?!\r\n"
sign_on_message == <<47, 63, 33, 13, 10>>
\* client.py:222
ack_message == <<6, 48, 55, 54, 13, 10>>
\* A slip: the BREAK frame without its CRC.
shutdown_msg_no_crc == <<1, 66, 48, 3>>

\* client.py:236, b"\x01B0\x03!1"
shutdown_msg == <<1, 66, 48, 3, 33, 49>>

\* What the device may answer to the wake-up, to the sign-on, to the ack
\* message (the password challenge) and to a password echo or a WriteRequest.
WakeupReplies == {<<0, 0, 0>>, <<0, 0, 1>>, <<6, 0, 0>>}
IdentReplies == {<<47, 65, 13, 10>>, <<0, 47, 10>>}
PassReplies == {<<1, 80, 48, 2, 40, 41>>, <<0, 0, 0, 0, 0, 0>>}
AckReplies == {<<6>>, <<21>>, <<0>>}

\* The response frames the device may send to a ReadRequest: well framed with
\* a good or a bad CRC, and one each with a wrong first and a wrong end byte.
ResponsePool ==
  {[payload |-> p, crc_ok |-> k, soh |-> SOH, etx |-> ETX] :
      p \in {<<7>>, <<1, 2, 7>>}, k \in BOOLEAN}
    \cup {[payload |-> <<7>>, crc_ok |-> TRUE, soh |-> 2, etx |-> ETX],
          [payload |-> <<7>>, crc_ok |-> TRUE, soh |-> SOH, etx |-> 4],
          [payload |-> <<0, 0, 128, 63>>, crc_ok |-> TRUE, soh |-> SOH,
           etx |-> ETX]}

ResponseWire == {WireBytes(f) : f \in ResponsePool}

\* The arguments of read_parameters: parameters with their id and the length
\* of their data class.
ReadParameterLists ==
  {<<[id |-> 15, length |-> 1]>>,
   <<[id |-> 107, length |-> 2], [id |-> 15, length |-> 1]>>}

\* The arguments of write_parameters, as the WriteData built at client.py:108.
ParameterLists ==
  {<<[id |-> 148, data |-> <<7>>]>>,
   <<[id |-> 148, data |-> <<1, 2>>], [id |-> 0, data |-> <<7>>]>>}

SessionInit == pc = "idle" /\ NoTransfer /\ NoSession /\ NoMessage /\ NoCall

\* What the session leaves alone.
not_session ==
  <<dbstate, locals, records, sent, history, messages, codec, settings>>

\* The device answers a ReadRequest.
DeviceResponse ==
  /\ rx = <<>>
  /\ pc = "response_first_char" /\ rx' \in ResponseWire
  /\ UNCHANGED <<pc, error, session, not_session>>

\* The device answers while the client waits in a recv.
DeviceReply ==
  \/ /\ rx = <<>>
     /\ \/ pc = "wakeup_recv" /\ rx' \in WakeupReplies
        \/ pc = "simple_read" /\ rx' \in IdentReplies
        \/ pc = "recv_pass" /\ rx' \in PassReplies
        \/ pc \in {"recv_ack", "write_recv"} /\ rx' \in AckReplies
     /\ UNCHANGED <<pc, error, session, not_session>>
  \/ DeviceResponse

\* Calling startup or shutdown ends the authenticated state; the other
\* operations leave it as it is.
Authenticates(name) == name \notin {"startup", "shutdown"} /\ authenticated

\* A public operation is called.
Call(name, first) ==
  /\ pc = "idle" /\ nops < MaxOps
  /\ op' = name /\ nops' = nops + 1 /\ log_at_call' = Len(log)
  /\ pc' = first /\ error' = ""
  /\ response' = <<>> /\ ident' = <<>> /\ pass_msg' = <<>> /\ ack' = <<>>
  /\ start_char_received' = FALSE
  /\ authenticated' = Authenticates(name)
  /\ UNCHANGED <<log, rx, not_session>>

\* startup is called.
CallStartup == Call("startup", "connect") /\ parameters' = parameters

\* client.py:216
Connect ==
  /\ pc = "connect"
  /\ log' = Append(log, Ev("connect", <<>>))
  /\ pc' = "wakeup_send"
  /\ UNCHANGED <<authenticated, op, nops, log_at_call, parameters,
                 response, ident, pass_msg,
                 ack, start_char_received, error, rx, not_session>>

\* _wakeup, client.py:198-200
WakeupSend ==
  /\ pc = "wakeup_send"
  /\ Send(wakeup_data)
  /\ pc' = "wakeup_recv"
  /\ UNCHANGED <<authenticated, op, nops, log_at_call, parameters,
                 response, ident, pass_msg,
                 ack, start_char_received, error, rx, not_session>>

\* A slip: any three bytes taken for the wake-up response.
is_wakeup_response_any(r) == TRUE

\* client.py:202
is_wakeup_response(r) == r = <<0, 0, 0>>

\* _wakeup, client.py:201-206
WakeupRecv ==
  /\ pc = "wakeup_recv" /\ CanRecv(3)
  /\ Recv(3) /\ response' = Slice(rx, 0, 3)
  /\ IF ~is_wakeup_response(response')
     THEN Fail(NonNullWakeup)
     ELSE pc' = "sign_on" /\ error' = error
  /\ UNCHANGED <<authenticated, op, nops, log_at_call, parameters,
                 ident, pass_msg, ack,
                 start_char_received, not_session>>

\* client.py:218-220, and the entry of simple_read (transport.py:207-214)
SignOn ==
  /\ pc = "sign_on"
  /\ Send(sign_on_message)
  /\ ident' = <<>> /\ start_char_received' = FALSE
  /\ pc' = "simple_read"
  /\ UNCHANGED <<authenticated, op, nops, log_at_call, parameters,
                 response, pass_msg, ack,
                 error, rx, not_session>>

\* One round of the loop of simple_read(start_char=b"/", end_char=b"\x0a"),
\* transport.py:215-235; in_data is returned into ident (client.py:221).
SimpleRead ==
  /\ pc = "simple_read" /\ CanRecv(1)
  /\ Recv(1)
  /\ LET b == Slice(rx, 0, 1)
     IN  IF ~start_char_received
         THEN IF b = <<47>>
              THEN /\ ident' = ident \o b /\ start_char_received' = TRUE
                   /\ pc' = pc
              ELSE UNCHANGED <<ident, start_char_received, pc>>
         ELSE IF b = <<10>>
              THEN /\ ident' = ident \o b /\ pc' = "ack_message"
                   /\ start_char_received' = start_char_received
              ELSE /\ ident' = ident \o b
                   /\ UNCHANGED <<start_char_received, pc>>
  /\ UNCHANGED <<authenticated, op, nops, log_at_call, parameters,
                 response, pass_msg, ack,
                 error, not_session>>

\* client.py:222-223
AckMessage ==
  /\ pc = "ack_message"
  /\ Send(ack_message)
  /\ pc' = "recv_pass"
  /\ UNCHANGED <<authenticated, op, nops, log_at_call, parameters,
                 response, ident, pass_msg,
                 ack, start_char_received, error, rx, not_session>>

\* client.py:224
RecvPass ==
  /\ pc = "recv_pass" /\ CanRecv(6)
  /\ Recv(6) /\ pass_msg' = Slice(rx, 0, 6)
  /\ pc' = "send_pass"
  /\ UNCHANGED <<authenticated, op, nops, log_at_call, parameters,
                 response, ident, ack,
                 start_char_received, error, not_session>>

\* A slip: the challenge answered with the ack message.
pass_reply_fixed(challenge) == ack_message

\* client.py:226, the challenge goes back as it came
pass_reply(challenge) == challenge

\* client.py:226
SendPass ==
  /\ pc = "send_pass"
  /\ Send(pass_reply(pass_msg))
  /\ pc' = "recv_ack"
  /\ UNCHANGED <<authenticated, op, nops, log_at_call, parameters,
                 response, ident, pass_msg,
                 ack, start_char_received, error, rx, not_session>>

\* A slip: every byte but NACK taken for the acknowledgement.
sign_on_acked_lenient(a) == a # <<NACK>>

\* client.py:228
sign_on_acked(a) == a = <<ACK>>

\* client.py:227-229
RecvAck ==
  /\ pc = "recv_ack" /\ CanRecv(1)
  /\ Recv(1) /\ ack' = Slice(rx, 0, 1)
  /\ IF ~sign_on_acked(ack') THEN Fail(NoSignOnAck) ELSE Return
  /\ authenticated' = sign_on_acked(ack')
  /\ UNCHANGED <<op, nops, log_at_call, parameters, response, ident, pass_msg,
                 start_char_received, not_session>>

\* write_parameters is called; client.py:108-112 builds the WriteData.
CallWriteParameters ==
  /\ Call("write_parameters", "write_send")
  /\ parameters' \in ParameterLists

\* client.py:112-116
WriteSend ==
  /\ pc = "write_send"
  /\ Send(WriteRequest_to_bytes(parameters))
  /\ pc' = "write_recv"
  /\ UNCHANGED <<authenticated, op, nops, log_at_call, parameters,
                 response, ident, pass_msg,
                 ack, start_char_received, error, rx, not_session>>

\* A slip: every byte but NACK taken for the acknowledgement.
write_acked_lenient(a) == a # <<NACK>>

\* client.py:121
write_acked(a) == a = <<ACK>>

\* client.py:117-125
WriteRecv ==
  /\ pc = "write_recv" /\ CanRecv(1)
  /\ Recv(1) /\ ack' = Slice(rx, 0, 1)
  /\ IF ~write_acked(ack') THEN Fail(WriteNotAccepted) ELSE Return
  /\ UNCHANGED <<authenticated, op, nops, log_at_call, parameters,
                 response, ident, pass_msg,
                 start_char_received, not_session>>

\* read_parameters is called.
CallReadParameters ==
  /\ Call("read_parameters", "read_send")
  /\ parameters' \in ReadParameterLists

\* [parameter.id for parameter in parameters], client.py:66
RECURSIVE parameter_ids(_)
parameter_ids(ps) ==
  IF ps = <<>> THEN <<>> ELSE <<Head(ps).id>> \o parameter_ids(Tail(ps))

\* What read_parameters leaves alone.
not_read ==
  <<authenticated, op, nops, log_at_call, parameters, response, ident,
    pass_msg, ack, start_char_received, dbstate, frame_number_data, records,
    sent, history, messages, codec, settings>>

\* client.py:66-70 and _read_parameters_by_id, client.py:249-252, up to the
\* entry of _read_response_data, client.py:261
ReadSend ==
  /\ pc = "read_send"
  /\ Send(ReadRequest_to_bytes(parameter_ids(parameters)))
  /\ in_bytes' = <<>>
  /\ pc' = "response_first_char"
  /\ UNCHANGED <<first_char, length, frame_data, end_char, crc, error, rx,
                 not_read>>

\* _read_response_data raises e inside the try of read_parameters.
RaiseInRead(e) == error' = e /\ pc' = "read_except"

\* client.py:263-265
ResponseFirstChar ==
  /\ pc = "response_first_char" /\ CanRecv(1)
  /\ Recv(1) /\ first_char' = Slice(rx, 0, 1)
  /\ IF first_char' # <<SOH>>
     THEN RaiseInRead(NotSOH)
     ELSE pc' = "response_length" /\ error' = error
  /\ UNCHANGED <<in_bytes, length, frame_data, end_char, crc, not_read>>

\* client.py:267-268; length_byte is kept in length
ResponseLength ==
  /\ pc = "response_length" /\ CanRecv(1)
  /\ Recv(1) /\ length' = Slice(rx, 0, 1)
  /\ pc' = "response_data"
  /\ UNCHANGED <<in_bytes, first_char, frame_data, end_char, crc, error,
                 not_read>>

\* client.py:270; data is kept in frame_data
ResponseData ==
  /\ pc = "response_data" /\ CanRecv(FromBytesBig(length))
  /\ Recv(FromBytesBig(length))
  /\ frame_data' = Slice(rx, 0, FromBytesBig(length))
  /\ pc' = "response_end_char"
  /\ UNCHANGED <<in_bytes, first_char, length, end_char, crc, error, not_read>>

\* client.py:272-276
ResponseEndChar ==
  /\ pc = "response_end_char" /\ CanRecv(1)
  /\ Recv(1) /\ end_char' = Slice(rx, 0, 1)
  /\ IF end_char' # <<ETX>>
     THEN RaiseInRead(NotETX) /\ in_bytes' = in_bytes
     ELSE /\ in_bytes' = in_bytes \o first_char \o length \o frame_data
                           \o end_char'
          /\ pc' = "response_crc" /\ error' = error
  /\ UNCHANGED <<first_char, length, frame_data, crc, not_read>>

\* client.py:278-291; the data returned goes to the parser
ResponseCrc ==
  /\ pc = "response_crc" /\ CanRecv(2)
  /\ Recv(2) /\ crc' = Slice(rx, 0, 2)
  /\ IF ~crc_valid(in_bytes, crc')
     THEN RaiseInRead(FailedCrc)
     ELSE pc' = "parse_response" /\ error' = error
  /\ UNCHANGED <<in_bytes, first_char, length, frame_data, end_char, not_read>>

\* client.py:71-72
ReadExcept ==
  /\ pc = "read_except"
  /\ Fail(Wrapped(error))
  /\ UNCHANGED <<log, rx, locals, not_read>>

RECURSIVE parse_length(_)
\* The sum of the lengths of the parameters' data classes.
parse_length(ps) ==
  IF ps = <<>> THEN 0 ELSE Head(ps).length + parse_length(Tail(ps))

\* parse.parse_corus_response, which is not in this source tree, by its
\* contract: a payload whose length is not the sum of the widths is refused.
PayloadLengthMismatch == "ProtocolError: payload length"
parse_corus_response_accepts(in_data, ps) == Len(in_data) = parse_length(ps)

\* client.py:73-75, outside the try
ParseResponse ==
  /\ pc = "parse_response"
  /\ IF parse_corus_response_accepts(frame_data, parameters)
     THEN Return
     ELSE Fail(PayloadLengthMismatch)
  /\ UNCHANGED <<log, rx, locals, not_read>>

\* shutdown is called.
CallShutdown == Call("shutdown", "shutdown_send") /\ parameters' = parameters

\* client.py:235-237
ShutdownSend ==
  /\ pc = "shutdown_send"
  /\ Send(shutdown_msg)
  /\ pc' = "disconnect"
  /\ UNCHANGED <<authenticated, op, nops, log_at_call, parameters,
                 response, ident, pass_msg,
                 ack, start_char_received, error, rx, not_session>>

\* client.py:238
Disconnect ==
  /\ pc = "disconnect"
  /\ log' = Append(log, Ev("disconnect", <<>>))
  /\ Return
  /\ UNCHANGED <<authenticated, op, nops, log_at_call, parameters,
                 response, ident, pass_msg,
                 ack, start_char_received, rx, not_session>>

SessionNext ==
  \/ DeviceReply
  \/ CallStartup
  \/ Connect
  \/ WakeupSend
  \/ WakeupRecv
  \/ SignOn
  \/ SimpleRead
  \/ AckMessage
  \/ RecvPass
  \/ SendPass
  \/ RecvAck
  \/ CallWriteParameters
  \/ WriteSend
  \/ WriteRecv
  \/ CallShutdown
  \/ ShutdownSend
  \/ Disconnect
  \/ CallReadParameters
  \/ ReadSend
  \/ ResponseFirstChar
  \/ ResponseLength
  \/ ResponseData
  \/ ResponseEndChar
  \/ ResponseCrc
  \/ ReadExcept
  \/ ParseResponse

SessionSpec == SessionInit /\ [][SessionNext]_vars

(***************************************************************************)
(* Part 4: the typed values of src/iflag/data.py, byte_to_date of          *)
(* src/iflag/utils.py and the parser of src/iflag/parse.py.  A Python int  *)
(* that can pass 2^31 is kept as [hi, lo], its value hi * 2^24 + lo; a     *)
(* Decimal as its sign, its whole part and its digits after the point in   *)
(* units of 10^-8; a str as the sequence of its code points.               *)
(***************************************************************************)

\* What a call returns, and the exception it raises.
Returns(t, v) == [t |-> t, v |-> v]
Raises(e) == [t |-> "raise", v |-> e]
\* Python's None as a value.
Absent == Returns("None", None)

PyInt(hi, lo) == [hi |-> hi, lo |-> lo]
Decimal(neg, whole, frac8) == [neg |-> neg, int |-> whole, frac8 |-> frac8]

\* int.from_bytes(in_bytes, "little"), data.py:68
int_from_bytes(in_data) ==
  PyInt(FromBytesLittle(SliceFrom(in_data, 3)),
      FromBytesLittle(Slice(in_data, 0, 3)))

\* value.to_bytes(n, "little") raises OverflowError unless
\* 0 <= value < 256^n; data.py:71
int_fits(value, n) ==
  /\ value.hi >= 0 /\ value.lo >= 0
  /\ IF n <= 3 THEN value.hi = 0 /\ value.lo < 256 ^ n
     ELSE value.hi < 256 ^ (n - 3)

\* value.to_bytes(n, "little"), data.py:71
int_to_bytes(value, n) ==
  IF n <= 3 THEN ToBytesLittle(value.lo, n)
  ELSE ToBytesLittle(value.lo, 3) \o ToBytesLittle(value.hi, n - 3)

\* The integer classes, data.py:55-113.
IntegerClasses == {"Byte", "Word", "EWord", "ULong", "EULong"}

\* cls.length, data.py:11, 38, 60, 89, 97, 105, 113, 148, 178, 209, 239, 264,
\* 278, 292;
\* the 9 of Index9 is the width its test feeds it.
cls_length(cls) ==
  CASE cls = "Byte" -> 1
    [] cls = "Word" -> 2
    [] cls = "EWord" -> 3
    [] cls = "ULong" -> 4
    [] cls = "EULong" -> 5
    [] cls = "Date" -> 4
    [] cls = "Float1" -> 2
    [] cls = "Float2" -> 2
    [] cls = "Float3" -> 2
    [] cls = "Index" -> 8
    [] cls = "Index9" -> 9
    [] cls = "Null2" -> 2
    [] cls = "Null4" -> 4
    [] cls = "CorusString" -> 8

\* cls.check_in_data passes, data.py:14-20; it raises ValueError otherwise.
check_in_data(cls, in_data) == Len(in_data) = cls_length(cls)

\* self.check_value_type passes, data.py:22-27; it raises DataError otherwise.
check_value_type(cls, value) ==
  value.t = CASE cls \in IntegerClasses -> "int"
              [] cls = "Date" -> "datetime"
              [] cls = "CorusString" -> "str"
              [] OTHER -> "Decimal"

\* The days of a month, as datetime checks them.
DaysInMonth(year, month) ==
  IF month = 2
  THEN IF year % 4 = 0 /\ (year % 100 # 0 \/ year % 400 = 0) THEN 29 ELSE 28
  ELSE IF month \in {4, 6, 9, 11} THEN 30 ELSE 31

\* datetime.datetime(year, month, day, hour, minute, second), utils.py:116-123:
\* ValueError for a field out of range.
datetime(year, month, day, hour, minute, second) ==
  IF /\ year \in 1..9999 /\ month \in 1..12
     /\ day \in 1..DaysInMonth(year, month)
     /\ hour \in 0..23 /\ minute \in 0..59 /\ second \in 0..59
  THEN Returns("datetime", Date(year, month, day, hour, minute, second))
  ELSE Raises("ValueError")

\* A slip in the month: its two high bits, in the last byte, left out.
byte_to_date_low_month(in_data) ==
  IF in_data.t = "None" THEN Absent
  ELSE LET lo == FromBytesLittle(Slice(in_data.v, 0, 3))
           b3 == FromBytesLittle(SliceFrom(in_data.v, 3))
       IN  datetime((b3 \div 4) + 2000, lo \div (2 ^ 22),
                    (lo \div (2 ^ 17)) % 32, (lo \div (2 ^ 12)) % 32,
                    (lo \div (2 ^ 6)) % 64, lo % 64)

\* byte_to_date, utils.py:85-125.  in_value is b3 * 2^24 + lo: the masks and
\* shifts take second, minute, hour, day and the low two bits of month from
\* lo, the high two bits of month and the year from b3.
byte_to_date(in_data) ==
  IF in_data.t = "None" THEN Absent
  ELSE LET lo == FromBytesLittle(Slice(in_data.v, 0, 3))
           b3 == FromBytesLittle(SliceFrom(in_data.v, 3))
       IN  datetime(((b3 \div 4) % 64) + 2000,
                    (lo \div (2 ^ 22)) + (b3 % 4) * 4,
                    (lo \div (2 ^ 17)) % 32, (lo \div (2 ^ 12)) % 32,
                    (lo \div (2 ^ 6)) % 64, lo % 64)

\* Integer.from_bytes, data.py:65-68
Integer_from_bytes(cls, in_data) ==
  IF ~check_in_data(cls, in_data) THEN Raises("ValueError")
  ELSE Returns("int", int_from_bytes(in_data))

\* Integer(value).to_bytes(), data.py:62-64 and 70-71
Integer_to_bytes(cls, value) ==
  IF ~check_value_type(cls, value) THEN Raises("DataError")
  ELSE IF ~int_fits(value.v, cls_length(cls)) THEN Raises("OverflowError")
  ELSE Returns("bytes", int_to_bytes(value.v, cls_length(cls)))

\* Date.from_bytes, data.py:45-49; a date that is None fails the type check
Date_from_bytes(in_data) ==
  IF ~check_in_data("Date", in_data) THEN Raises("ValueError")
  ELSE LET date == byte_to_date(Returns("bytes", in_data))
       IN  IF date.t = "None" THEN Raises("DataError") ELSE date

\* Date(value).to_bytes(), data.py:41-43 and 51-52
Date_to_bytes(value) ==
  IF ~check_value_type("Date", value) THEN Raises("DataError")
  ELSE IF ~date_fits(value.v) THEN Raises("OverflowError")
  ELSE Returns("bytes", date_to_byte(value.v))

\* Float1.from_bytes, data.py:155-161: signed 16 bits, divided by 100
Float1_from_bytes(in_data) ==
  IF ~check_in_data("Float1", in_data) THEN Raises("ValueError")
  ELSE LET u == FromBytesLittle(in_data)
           a == IF u >= 32768 THEN 65536 - u ELSE u
       IN  Returns("Decimal",
                   Decimal(u >= 32768, PyInt(0, a \div 100), (a % 100) * 1000000))

\* Float1(value).to_bytes(), data.py:151-153 and 163-167
Float1_to_bytes(value) ==
  IF ~check_value_type("Float1", value) THEN Raises("DataError")
  ELSE Raises("NotImplementedError")

\* Decimal(f"{num}e{exp}") for a num below 2^15 and an exp of -3..1
DecimalE(num, exp) ==
  IF exp >= 0 THEN Decimal(FALSE, PyInt(0, num * 10 ^ exp), 0)
  ELSE Decimal(FALSE, PyInt(0, num \div 10 ^ (-exp)),
               (num % 10 ^ (-exp)) * 10 ^ (8 + exp))

\* Float2.from_bytes, data.py:185-192: bits 0-14 the number, bit 15 the
\* exponent, less 3
Float2_from_bytes(in_data) ==
  IF ~check_in_data("Float2", in_data) THEN Raises("ValueError")
  ELSE LET val == FromBytesLittle(in_data)
           num == val % 32768
           exp == (val \div 32768) - 3
       IN  Returns("Decimal", DecimalE(num, exp))

\* Float3.from_bytes, data.py:216-223: bits 0-13 the number, bits 14-15 the
\* exponent, less 2
Float3_from_bytes(in_data) ==
  IF ~check_in_data("Float3", in_data) THEN Raises("ValueError")
  ELSE LET val == FromBytesLittle(in_data)
           num == val % 16384
           exp == (val \div 16384) - 2
       IN  Returns("Decimal", DecimalE(num, exp))

\* int.from_bytes(b, "little") of four bytes as q * 100000 + r, r < 100000;
\* 2^24 is 167 * 100000 + 77216.
DivMod100000(b) ==
  LET units == b[4] * 77216 + FromBytesLittle(Slice(b, 0, 3))
  IN  [q |-> b[4] * 167 + units \div 100000, r |-> units % 100000]

\* value + n for a small n
int_add(value, n) ==
  PyInt(value.hi + (value.lo + n) \div (2 ^ 24), (value.lo + n) % (2 ^ 24))

\* Decimal.quantize(Decimal("0.001")) of q thousandths and r / 10^8, with
\* the rounding of the default context, ROUND_HALF_EVEN: the thousandths.
quantize(q, r) ==
  IF r > 50000 \/ (r = 50000 /\ q % 2 = 1) THEN q + 1 ELSE q

\* Index.from_bytes, data.py:246-254
Index_from_bytes(in_data) ==
  IF ~check_in_data("Index", in_data) THEN Raises("ValueError")
  ELSE LET num == int_from_bytes(Slice(in_data, 0, 4))
           dec == DivMod100000(SliceFrom(in_data, 4))
           milli == quantize(dec.q, dec.r)
       IN  Returns("Decimal",
                   Decimal(FALSE, int_add(num, milli \div 1000),
                           (milli % 1000) * 100000))

\* Index(value).to_bytes(), data.py:242-244 and 256-260
Index_to_bytes(value) ==
  IF ~check_value_type("Index", value) THEN Raises("DataError")
  ELSE Raises("NotImplementedError")

\* A slip in the layout of Index9: the fields split as in Index, after four
\* bytes.
Index9_from_bytes_split4(in_data) ==
  IF ~check_in_data("Index9", in_data) THEN Raises("ValueError")
  ELSE LET num == int_from_bytes(Slice(in_data, 0, 4))
           dec == DivMod100000(SliceFrom(in_data, 5))
       IN  Returns("Decimal",
                   Decimal(FALSE, int_add(num, dec.q \div 1000),
                           (dec.q % 1000) * 100000 + dec.r))

\* data.Index9.from_bytes, which src/tests/test_data.py:11-13 calls and
\* data.py does not define, by its contract: nine bytes, a 40-bit whole part
\* and a 32-bit fraction in units of 10^-8, both little-endian.
Index9_from_bytes(in_data) ==
  IF ~check_in_data("Index9", in_data) THEN Raises("ValueError")
  ELSE LET num == int_from_bytes(Slice(in_data, 0, 5))
           dec == DivMod100000(SliceFrom(in_data, 5))
       IN  Returns("Decimal",
                   Decimal(FALSE, int_add(num, dec.q \div 1000),
                           (dec.q % 1000) * 100000 + dec.r))

\* CorusString.from_bytes, data.py:299-302; Latin-1 maps byte b to the code
\* point b
CorusString_from_bytes(in_data) ==
  IF ~check_in_data("CorusString", in_data) THEN Raises("ValueError")
  ELSE Returns("str", [i \in 1..Len(in_data) |-> in_data[i]])

\* CorusString(value).to_bytes(), data.py:295-297 and 304-305; Latin-1 has
\* the code points below 256
CorusString_to_bytes(value) ==
  IF ~check_value_type("CorusString", value) THEN Raises("DataError")
  ELSE IF \E i \in 1..Len(value.v) : value.v[i] > 255
  THEN Raises("UnicodeEncodeError")
  ELSE Returns("bytes", [i \in 1..Len(value.v) |-> value.v[i]])

\* cls.from_bytes(in_data); Null2 and Null4, data.py:269-271 and 283-285,
\* look at nothing
from_bytes(cls, in_data) ==
  CASE cls \in IntegerClasses -> Integer_from_bytes(cls, in_data)
    [] cls = "Date" -> Date_from_bytes(in_data)
    [] cls = "Float1" -> Float1_from_bytes(in_data)
    [] cls = "Float2" -> Float2_from_bytes(in_data)
    [] cls = "Float3" -> Float3_from_bytes(in_data)
    [] cls = "Index" -> Index_from_bytes(in_data)
    [] cls = "Index9" -> Index9_from_bytes(in_data)
    [] cls = "CorusString" -> CorusString_from_bytes(in_data)
    [] cls \in {"Null2", "Null4"} -> Absent

\* cls(value).to_bytes(); Null2 and Null4, data.py:273-274 and 287-288
to_bytes(cls, value) ==
  CASE cls \in IntegerClasses -> Integer_to_bytes(cls, value)
    [] cls = "Date" -> Date_to_bytes(value)
    [] cls = "Float1" -> Float1_to_bytes(value)
    [] cls = "Index" -> Index_to_bytes(value)
    [] cls = "CorusString" -> CorusString_to_bytes(value)
    [] cls = "Null2" -> Returns("bytes", <<0, 0>>)
    [] cls = "Null4" -> Returns("bytes", <<0, 0, 0, 0>>)

\* CorusDataParser.parse_length, parse.py:120-126
RECURSIVE parser_length(_)
parser_length(parsing_config) ==
  IF parsing_config = <<>> THEN 0
  ELSE cls_length(Head(parsing_config).data_class)
         + parser_length(Tail(parsing_config))

\* The loop of CorusDataParser.parse, parse.py:138-146
RECURSIVE parse_items(_, _, _, _)
parse_items(parsing_config, in_data, index, out_data) ==
  IF parsing_config = <<>> THEN Returns("dict", out_data)
  ELSE LET item == Head(parsing_config)
           end_index == index + cls_length(item.data_class)
           data == Slice(in_data, index, end_index)
           data_instance == from_bytes(item.data_class, data)
       IN  IF data_instance.t = "raise" THEN data_instance
           ELSE parse_items(
                  Tail(parsing_config), in_data, end_index,
                  [n \in DOMAIN out_data \cup {item.name} |->
                     IF n = item.name THEN data_instance ELSE out_data[n]])

\* The empty dict.
EmptyDict == [n \in {} |-> Absent]

\* CorusDataParser.parse, parse.py:128-148
parse(parsing_config, in_data) ==
  IF Len(in_data) # parser_length(parsing_config) THEN Raises("ValueError")
  ELSE parse_items(parsing_config, in_data, 0, EmptyDict)

(***************************************************************************)
(* The parsing configs of the databases, src/iflag/parse.py:15-109.        *)
(***************************************************************************)

\* ParseConfigItem(name=.., data_class=..), parse.py:9-12
Item(name, data_class) == [name |-> name, data_class |-> data_class]

\* parse.py:15-38
INTERVAL_DATABASE_PARSE_CONFIG ==
  <<Item("record_duration", "Byte"), Item("status", "Byte"),
    Item("end_date", "Date"), Item("consumption_unconverted", "Word"),
    Item("consumption_converted", "ULong"),
    Item("counter_unconverted", "Word"), Item("counter_converted", "ULong"),
    Item("temperature_minimum", "Float1"),
    Item("temperature_maximum", "Float1"),
    Item("temperature_average", "Float1"),
    Item("pressure_minimum", "Float2"), Item("pressure_maximum", "Float2"),
    Item("pressure_average", "Float2"),
    Item("flowrate_unconverted_minimum", "Float3"),
    Item("flowrate_unconverted_maximum", "Float3"),
    Item("flowrate_converted_minimum", "Float3"),
    Item("flowrate_converted_maximum", "Float3"),
    Item("none_data_1", "Null4"),
    Item("flowrate_unconverted_average", "Float3"),
    Item("flowrate_converted_average", "Float3"), Item("start_date", "Date"),
    Item("none_data_2", "Null2")>>

\* parse.py:40-43, "interval log and hourly log has the same structure"
HOURLY_DATABASE_PARSE_CONFIG == INTERVAL_DATABASE_PARSE_CONFIG

\* parse.py:45-68
DAILY_DATABASE_PARSE_CONFIG ==
  <<Item("record_duration", "Word"), Item("status", "Byte"),
    Item("end_date", "Date"), Item("consumption_unconverted", "EWord"),
    Item("consumption_converted", "EULong"),
    Item("counter_unconverted", "EWord"),
    Item("counter_converted", "EULong"),
    Item("temperature_minimum", "Float1"),
    Item("temperature_maximum", "Float1"),
    Item("temperature_average", "Float1"),
    Item("pressure_minimum", "Float2"), Item("pressure_maximum", "Float2"),
    Item("pressure_average", "Float2"),
    Item("flowrate_unconverted_minimum", "Float3"),
    Item("flowrate_unconverted_maximum", "Float3"),
    Item("flowrate_converted_minimum", "Float3"),
    Item("flowrate_converted_maximum", "Float3"),
    Item("none_data_1", "Null4"),
    Item("flowrate_unconverted_average", "Float3"),
    Item("flowrate_converted_average", "Float3"), Item("start_date", "Date"),
    Item("none_data_2", "Null2")>>

\* parse.py:70-109
MONTHLY_DATABASE_PARSE_CONFIG ==
  <<Item("record_duration", "Word"), Item("status", "Byte"),
    Item("end_date", "Date"), Item("consumption_unconverted", "EWord"),
    Item("consumption_converted", "EULong"),
    Item("counter_unconverted", "EWord"),
    Item("counter_converted", "EULong"),
    Item("temperature_minimum", "Float1"),
    Item("temperature_maximum", "Float1"),
    Item("temperature_average", "Float1"),
    Item("pressure_minimum", "Float2"), Item("pressure_maximum", "Float2"),
    Item("pressure_average", "Float2"),
    Item("flowrate_unconverted_minimum", "Float3"),
    Item("flowrate_unconverted_maximum", "Float3"),
    Item("flowrate_converted_minimum", "Float3"),
    Item("flowrate_converted_maximum", "Float3"),
    Item("none_data_1", "Null4"), Item("index_unconverted", "Index"),
    Item("index_converted", "Index"), Item("counter_unconverted", "Index"),
    Item("counter_converted", "Index"),
    Item("consumption_unconverted_interval_maximum", "Word"),
    Item("consumption_unconverted_interval_maximum_date", "Date"),
    Item("consumption_converted_interval_maximum", "ULong"),
    Item("consumption_converted_interval_maximum_date", "Date"),
    Item("flowrate_unconverted_average", "Float3"),
    Item("flowrate_converted_average", "Float3"), Item("start_date", "Date"),
    Item("none_data_2", "Null2")>>

\* The built-in configs, by database.
BuiltInConfigs ==
  {INTERVAL_DATABASE_PARSE_CONFIG, HOURLY_DATABASE_PARSE_CONFIG,
   DAILY_DATABASE_PARSE_CONFIG, MONTHLY_DATABASE_PARSE_CONFIG}

\* Bytes of a field of class cls in a record of the device, the k-th choice.
FieldBytes(cls, k) ==
  CASE cls = "Byte" -> <<k>>
    [] cls = "Word" -> <<k, 1>>
    [] cls = "EWord" -> <<k, 1, 0>>
    [] cls = "ULong" -> <<k, 0, 0, 1>>
    [] cls = "EULong" -> <<k, 0, 0, 0, 0>>
    [] cls = "Date" -> <<0, 0, 66, 0>>
    [] cls = "Float1" -> <<180, 249>>
    [] cls = "Float2" -> <<k, 128>>
    [] cls = "Float3" -> <<k, 192>>
    [] cls = "Index" -> <<20, 46, 0, 0, 128, 29, 44, 4>>
    [] cls = "Null2" -> <<0, 0>>
    [] cls = "Null4" -> <<0, 0, 0, 0>>

RECURSIVE RecordBytes(_, _)
\* A record of the device for a parsing config, the k-th choice.
RecordBytes(parsing_config, k) ==
  IF parsing_config = <<>> THEN <<>>
  ELSE FieldBytes(Head(parsing_config).data_class, k)
         \o RecordBytes(Tail(parsing_config), k)

\* How many records of each config are parsed.
MaxRecords == 2

\* The most items in a parsing config.
MaxFields == 2

\* Byte strings of width w: one byte value all over, the bytes 1..w, and a
\* single byte set among zeros.
Patterns(w) ==
  {[i \in 1..w |-> x] : x \in {0, 1, 127, 255}}
    \cup {[i \in 1..w |-> i]}
    \cup {[i \in 1..w |-> IF i = k THEN x ELSE 0] : k \in 1..w, x \in {1, 255}}

\* The bytes handed to from_bytes of a class: of its width, the examples of
\* the tests, and one byte short or long.
InBytes(cls) ==
  Patterns(cls_length(cls)) \cup Patterns(cls_length(cls) - 1)
    \cup {[i \in 1..(cls_length(cls) + 1) |-> 0]}
    \cup CASE cls = "Index" ->
                {<<20, 46, 0, 0, 128, 29, 44, 4>>, <<0, 0, 0, 0, 80, 195, 0, 0>>,
                 <<0, 0, 0, 0, 240, 73, 2, 0>>, <<255, 255, 255, 255, 1, 0, 0, 0>>}
           [] cls = "Index9" -> {<<20, 46, 0, 0, 0, 128, 29, 44, 4>>}
           [] cls = "Date" ->
                {<<0, 0, 66, 0>>, <<123, 255, 190, 255>>, <<0, 0, 190, 3>>}
           [] cls = "Float1" -> {<<180, 249>>, <<76, 6>>}
           [] cls = "CorusString" -> {<<65, 66, 67, 68, 69, 70, 71, 233>>}
           [] OTHER -> {}

\* The datetimes handed to date_to_byte: the ends and the middle of the
\* range of the four bytes, and the years next to it.
CodecDates ==
  {x.v : x \in
     {datetime(y, mo, d, h, mi, s) :
        y \in {1999, 2000, 2024, 2063, 2064}, mo \in {1, 2, 12},
        d \in {1, 28, 29, 31}, h \in {0, 23}, mi \in {0, 59}, s \in {0, 59}}
       \ {Raises("ValueError")}}

\* The values a typed value is built from.
IntValues ==
  {PyInt(hi, lo) : hi \in {0, 1, 255, 256, 65535, 65536},
                 lo \in {0, 1, 255, 256, 65535, 65536, 16777215}}
StrValues ==
  {<<>>, <<65, 66>>, <<65, 66, 67, 68, 69, 70, 71, 72>>,
   <<233, 116, 233, 0, 0, 0, 0, 0>>, <<65, 66, 67, 68, 69, 70, 71, 72, 73>>,
   <<8364>>}
ValuesOf(cls) ==
  {Absent}
    \cup CASE cls \in IntegerClasses -> {Returns("int", v) : v \in IntValues}
           [] cls = "Date" -> {Returns("datetime", d) : d \in CodecDates}
           [] cls = "CorusString" -> {Returns("str", v) : v \in StrValues}
           [] cls \in {"Float1", "Index"} ->
                {Returns("Decimal", Decimal(TRUE, PyInt(0, 16), 12000000)),
                 Returns("Decimal", Decimal(FALSE, PyInt(0, 11796), 70000000))}
           [] OTHER -> {}

\* The classes from_bytes and to_bytes are called on.
Decoders ==
  IntegerClasses \cup {"Date", "Float1", "Index", "Index9", "CorusString", "Null2",
                 "Null4"}
Encoders == Decoders \ {"Index9"}

\* The parsing configs and the data of the parser.
ParseConfigItems ==
  {[name |-> n, data_class |-> c] :
     n \in {"a", "b"}, c \in {"Byte", "Word", "Date"}}
ParserData ==
  {<<>>, <<7>>, <<255>>, <<7, 8>>, <<7, 8, 9>>, <<0, 0, 66, 0>>, <<0, 0, 0, 0>>,
   <<7, 0, 0, 66, 0>>, <<0, 0, 66, 0, 7>>, <<7, 8, 0, 0, 66, 0>>,
   <<0, 0, 66, 0, 123, 255, 190, 255>>}

\* The longest input of crc16.
MaxData == 3

\* Inputs of crc16: bytes with and without the top bit, so that the
\* accumulator grows past 16 bits and the polynomial is applied.
CrcData == SeqsUpTo({0, 1, 66, 128, 255}, MaxData)

\* The calls made.
Calls ==
  {[fn |-> "date_to_byte", date |-> d] : d \in CodecDates \cup {None}}
    \cup {[fn |-> "byte_to_date", in_data |-> b] :
            b \in {Absent} \cup {Returns("bytes", x) : x \in InBytes("Date")}}
    \cup {[fn |-> "from_bytes", cls |-> c.cls, in_data |-> c.b] :
            c \in UNION {{[cls |-> k, b |-> x] : x \in InBytes(k)} :
                           k \in Decoders}}
    \cup {[fn |-> "to_bytes", cls |-> c.cls, value |-> c.v] :
            c \in UNION {{[cls |-> k, v |-> x] : x \in ValuesOf(k)} :
                           k \in Encoders}}
    \cup {[fn |-> "parse", parsing_config |-> p, in_data |-> d] :
            p \in SeqsUpTo(ParseConfigItems, MaxFields), d \in ParserData}
    \cup {[fn |-> "parse", parsing_config |-> c, in_data |-> RecordBytes(c, k)] :
            c \in BuiltInConfigs, k \in 1..MaxRecords}
    \cup {[fn |-> "crc16", data |-> d] : d \in CrcData}

CodecInit ==
  /\ pc = "codec" /\ NoTransfer /\ NoSession /\ NoMessage
  /\ call \in Calls /\ result = [t |-> ""]
  /\ _input_pulse_weight = "None" /\ database_layout = "None"
  /\ socket = NoSocket

\* What a codec function leaves alone.
not_codec ==
  <<dbstate, locals, records, error, rx, sent, history, session, messages,
    settings>>

\* date_to_byte(date); to_bytes(4, "little") raises OverflowError for a year
\* outside 2000..2063
DateToByte ==
  /\ pc = "codec" /\ call.fn = "date_to_byte"
  /\ result' = IF date_fits(call.date)
               THEN Returns("bytes", date_to_byte(call.date))
               ELSE Raises("OverflowError")
  /\ pc' = "done"
  /\ UNCHANGED <<call, not_codec>>

ByteToDate ==
  /\ pc = "codec" /\ call.fn = "byte_to_date"
  /\ result' = byte_to_date(call.in_data)
  /\ pc' = "done"
  /\ UNCHANGED <<call, not_codec>>

FromBytes ==
  /\ pc = "codec" /\ call.fn = "from_bytes"
  /\ result' = from_bytes(call.cls, call.in_data)
  /\ pc' = "done"
  /\ UNCHANGED <<call, not_codec>>

ToBytes ==
  /\ pc = "codec" /\ call.fn = "to_bytes"
  /\ result' = to_bytes(call.cls, call.value)
  /\ pc' = "done"
  /\ UNCHANGED <<call, not_codec>>

Parse ==
  /\ pc = "codec" /\ call.fn = "parse"
  /\ result' = parse(call.parsing_config, call.in_data)
  /\ pc' = "done"
  /\ UNCHANGED <<call, not_codec>>

\* crc16(data), utils.py:5-25
Crc16 ==
  /\ pc = "codec" /\ call.fn = "crc16"
  /\ result' = Returns("bytes", crc16(call.data))
  /\ pc' = "done"
  /\ UNCHANGED <<call, not_codec>>

CodecNext ==
  \/ Crc16
  \/ DateToByte
  \/ ByteToDate
  \/ FromBytes
  \/ ToBytes
  \/ Parse

CodecSpec == CodecInit /\ [][CodecNext]_vars

(***************************************************************************)
(* Part 5: the entry of read_database (src/iflag/client.py:127-164), from  *)
(* the call to the ReadDatabaseRequest; the transfer that follows is       *)
(* Part 1.  A pulse weight that is neither given nor stored is read from   *)
(* the meter by the property input_pulse_weight, through read_parameters.  *)
(***************************************************************************)

\* CorusClient.DATABASES, client.py:21
DATABASES == {"interval", "hourly", "daily", "monthly"}

\* The pulse weights and layouts of the constructor and of read_database:
\* None, a value that is false for `or` (Decimal(0), an empty dict), a value;
\* "read" is the pulse weight the meter gave.
PulseWeights == {"None", "0", "1"}
Layouts == {"None", "{}", "layout"}

\* bool(v), as `or` tests it at client.py:146 and 153
truthy(v) == v \notin {"None", "0", "{}"}

\* The configuration errors of read_database, client.py:142, 148, 155.
UnknownDatabase == "CorusClientError: not a valid database"
MissingPulseWeight == "CorusClientError: without a predefined pulse weight"
MissingLayout == "CorusClientError: without a predefined database layout"

\* The calls of read_database.
ReadDatabaseCalls ==
  {[fn |-> "read_database", database |-> d, start |-> a, stop |-> None,
    input_pulse_weight |-> w, database_layout |-> l] :
     d \in {"interval", "monthly", "event"},
     a \in {None, Date(2021, 12, 31, 23, 59, 59)},
     w \in PulseWeights, l \in Layouts}

\* read_database is called on a client built with any pulse weight and
\* layout; the log starts at the call.
DatabaseInit ==
  /\ pc = "read_database" /\ NoTransfer /\ NoMessage
  /\ op = "read_database" /\ nops = 1 /\ log = <<>> /\ log_at_call = 0
  /\ parameters = <<>>
  /\ response = <<>> /\ ident = <<>> /\ pass_msg = <<>> /\ ack = <<>>
  /\ start_char_received = FALSE /\ authenticated = TRUE
  /\ call \in ReadDatabaseCalls /\ result = [t |-> ""]
  /\ _input_pulse_weight \in PulseWeights /\ database_layout \in Layouts
  /\ socket = NoSocket

\* What the entry of read_database leaves alone.
not_database ==
  <<authenticated, op, nops, log_at_call, response, ident, pass_msg, ack,
    start_char_received, dbstate, locals, records, rx, sent, history, messages,
    call, database_layout, socket>>

\* read_database raises e.
RaiseInDatabase(e) == result' = Raises(e) /\ Fail(e)

\* client.py:141-144
CheckDatabase ==
  /\ pc = "read_database"
  /\ IF call.database \notin DATABASES
     THEN RaiseInDatabase(UnknownDatabase)
     ELSE pc' = "pulse_weight" /\ UNCHANGED <<result, error>>
  /\ UNCHANGED <<log, parameters, _input_pulse_weight, not_database>>

\* client.py:146 and the property input_pulse_weight, client.py:91-97: the
\* argument if it is true, else the stored value, read from the meter when
\* it is None
PulseWeight ==
  /\ pc = "pulse_weight"
  /\ IF truthy(call.input_pulse_weight) \/ _input_pulse_weight # "None"
     THEN pc' = "check_pulse_weight" /\ parameters' = parameters
     ELSE pc' = "read_send" /\ parameters' = <<[id |-> 1, length |-> 4]>>
  /\ UNCHANGED <<log, error, result, _input_pulse_weight, not_database>>

\* client.py:94-99: read_parameters has returned or raised
PulseWeightRead ==
  /\ pc = "idle" /\ result.t = ""
  /\ IF error = ""
     THEN /\ _input_pulse_weight' = "read" /\ pc' = "check_pulse_weight"
          /\ UNCHANGED <<result, error>>
     ELSE RaiseInDatabase(error) /\ _input_pulse_weight' = _input_pulse_weight
  /\ UNCHANGED <<log, parameters, not_database>>

\* pulse_weight of client.py:146
pulse_weight ==
  IF truthy(call.input_pulse_weight) THEN call.input_pulse_weight
  ELSE _input_pulse_weight

\* client.py:147-151
CheckPulseWeight ==
  /\ pc = "check_pulse_weight"
  /\ IF pulse_weight = "None"
     THEN RaiseInDatabase(MissingPulseWeight)
     ELSE pc' = "check_layout" /\ UNCHANGED <<result, error>>
  /\ UNCHANGED <<log, parameters, _input_pulse_weight, not_database>>

\* _database_layout of client.py:153
database_layout_used ==
  IF truthy(call.database_layout) THEN call.database_layout
  ELSE database_layout

\* client.py:153-158
CheckLayout ==
  /\ pc = "check_layout"
  /\ IF database_layout_used = "None"
     THEN RaiseInDatabase(MissingLayout)
     ELSE pc' = "send_request" /\ UNCHANGED <<result, error>>
  /\ UNCHANGED <<log, parameters, _input_pulse_weight, not_database>>

\* client.py:160-164; _read_database_data is entered
SendReadDatabaseRequest ==
  /\ pc = "send_request"
  /\ Send(ReadDatabaseRequest_to_bytes(call.database, call.start, call.stop))
  /\ pc' = "call"
  /\ UNCHANGED <<error, result, parameters, _input_pulse_weight, not_database>>

DatabaseNext ==
  \/ CheckDatabase
  \/ PulseWeight
  \/ ReadSend
  \/ DeviceResponse
  \/ ResponseFirstChar
  \/ ResponseLength
  \/ ResponseData
  \/ ResponseEndChar
  \/ ResponseCrc
  \/ ReadExcept
  \/ ParseResponse
  \/ PulseWeightRead
  \/ CheckPulseWeight
  \/ CheckLayout
  \/ SendReadDatabaseRequest

DatabaseSpec == DatabaseInit /\ [][DatabaseNext]_vars

(***************************************************************************)
(* Part 6: recv of TcpTransport (src/iflag/transport.py:257-263 and        *)
(* 319-329) on a stream socket.  rx is the socket's receive buffer; the    *)
(* bytes the peer has sent arrive in segments of any size; socket.recv(n)  *)
(* returns at most n of the bytes that are there, b"" once the peer has    *)
(* closed, and times out while nothing is there.                           *)
(***************************************************************************)

\* The most bytes asked for, and sent by the peer.
MaxChars == 3

TransportInit ==
  /\ pc = "recv" /\ NoTransfer /\ NoSession /\ NoMessage
  /\ call \in {[fn |-> "recv", chars |-> n] : n \in 1..MaxChars}
  /\ result = [t |-> ""]
  /\ _input_pulse_weight = "None" /\ database_layout = "None"
  /\ socket \in {[wire |-> w, open |-> TRUE] :
                   w \in SeqsUpTo({1, 2}, MaxChars)}

\* What the transport leaves alone.
not_transport ==
  <<dbstate, locals, records, error, sent, history, session, messages, call,
    _input_pulse_weight, database_layout>>

\* A segment of the peer's bytes reaches the socket.
SegmentArrives ==
  /\ pc = "recv"
  /\ \E k \in 1..Len(socket.wire) :
       /\ rx' = rx \o SubSeq(socket.wire, 1, k)
       /\ socket' = [socket EXCEPT !.wire = SliceFrom(socket.wire, k)]
  /\ UNCHANGED <<pc, result, not_transport>>

\* The peer closes the connection after the bytes it has sent.
PeerCloses ==
  /\ pc = "recv" /\ socket.open /\ socket.wire = <<>>
  /\ socket' = [socket EXCEPT !.open = FALSE]
  /\ UNCHANGED <<pc, rx, result, not_transport>>

\* BaseTransport.recv and TcpTransport._recv, transport.py:257-263 and
\* 325-329: self.socket.recv(chars) returns
TcpRecv ==
  /\ pc = "recv" /\ (rx # <<>> \/ ~socket.open)
  /\ result' = Returns("bytes", Slice(rx, 0, call.chars))
  /\ rx' = SliceFrom(rx, call.chars)
  /\ pc' = "done"
  /\ UNCHANGED <<socket, not_transport>>

\* transport.py:327-328: socket.timeout is caught and TransportError, a name
\* the module does not define, is raised from it
TcpRecvTimeout ==
  /\ pc = "recv" /\ rx = <<>> /\ socket.open
  /\ result' = Raises("NameError")
  /\ pc' = "done"
  /\ UNCHANGED <<rx, socket, not_transport>>

TransportNext ==
  \/ SegmentArrives
  \/ PeerCloses
  \/ TcpRecv
  \/ TcpRecvTimeout

TransportSpec == TransportInit /\ [][TransportNext]_vars

(***************************************************************************)
(* Part 7: the transfer of Part 1 against a device that never stops        *)
(* sending: after the request, and after every ACK or NACK, it puts one    *)
(* more well-framed frame on the wire, with a frame number at the top of   *)
(* the 15-bit range or 0, last or not, with a CRC that matches or not.     *)
(***************************************************************************)

\* More frames than any transfer of this part takes; the device of this part
\* is never seen to reach it.
MaxStream == 10

\* Frame numbers around the wrap of the 15-bit counter.
StreamNumbers == {0, 32766, 32767}

StreamPool ==
  {[payload |-> Header(fn, last) \o <<2, 5>>, crc_ok |-> k,
    soh |-> SOH, etx |-> ETX] :
      fn \in StreamNumbers, last \in BOOLEAN, k \in BOOLEAN}

StreamWire == [f \in StreamPool |-> WireBytes(f)]

\* The device sends its next frame.
DeviceStream ==
  /\ pc = "recv_first_char" /\ rx = <<>> /\ nframes < MaxStream
  /\ \E f \in StreamPool :
       /\ rx' = StreamWire[f]
       /\ frame' = f
       /\ valid_seen' = IF Valid(f) THEN valid_seen + 1 ELSE valid_seen
       /\ good' = IF Valid(f)
                  THEN good \o SliceFrom(f.payload, IF valid_seen = 0 THEN 3 ELSE 2)
                  ELSE good
       /\ all_valid' = (all_valid /\ Valid(f))
       /\ stream' = IF all_valid' THEN Append(stream, f) ELSE <<>>
  /\ nframes' = nframes + 1
  /\ sent_at_frame' = Len(sent)
  /\ UNCHANGED <<pc, dbstate, locals, records, error, sent, last_acked>>
  /\ UNCHANGED <<session, messages, codec, settings>>

StreamNext ==
  \/ StartRead
  \/ DeviceStream
  \/ RecvFirstChar
  \/ RecvLength
  \/ RecvFrameData
  \/ RecvEndChar
  \/ AppendFrameData
  \/ RecvCrc
  \/ CrcFailure
  \/ CrcSuccess
  \/ SplitRecords
  \/ ReadDatabaseExcept

\* The client is one sequential program, which takes its next step whenever
\* it has one, and the device answers whenever the client waits for a frame.
StreamSpec == Init /\ [][StreamNext]_vars /\ WF_vars(StreamNext)

(***************************************************************************)
(* Vocabulary of the claims                                                *)
(***************************************************************************)

RECURSIVE Count(_, _)
\* How many bytes of s are b.
Count(s, b) ==
  IF s = <<>> THEN 0 ELSE (IF Head(s) = b THEN 1 ELSE 0) + Count(Tail(s), b)

RECURSIVE TrailingRun(_, _)
\* How many b end s.
TrailingRun(s, b) ==
  IF s = <<>> \/ s[Len(s)] # b THEN 0
  ELSE 1 + TrailingRun(SubSeq(s, 1, Len(s) - 1), b)

\* The longest run of consecutive b in s.
MaxRun(s, b) ==
  LET runs == {TrailingRun(SubSeq(s, 1, k), b) : k \in 0..Len(s)}
  IN  CHOOSE m \in runs : \A r \in runs : r <= m

\* The byte at payload offset 2, as a string of 0 or 1 bytes.
SizeByte(f) == Slice(f.payload, 2, 3)

\* The stream sent so far is CRC-valid frames numbered 0, 1, 2, ..., the
\* terminal bit on none but the latest, record_size in the first not zero.
Clean ==
  /\ all_valid /\ stream # <<>>
  /\ \A k \in 1..Len(stream) :
       /\ FrameNo(stream[k]) = k - 1
       /\ IsLast(stream[k]) => k = Len(stream)
  /\ SizeByte(stream[1]) \notin {<<>>, <<0>>}

\* The stream sent so far begins a valid stream of N frames of which the
\* frames at positions i < j were swapped, and reaches position i.
SwappedPrefix ==
  /\ all_valid /\ stream # <<>>
  /\ \E N \in 2..(MaxFrames + 1) : \E i \in 1..N : \E j \in (i + 1)..N :
       /\ i <= Len(stream) /\ Len(stream) <= N
       /\ \A k \in 1..Len(stream) :
            LET o == IF k = i THEN j ELSE IF k = j THEN i ELSE k
            IN  /\ FrameNo(stream[k]) = o - 1
                /\ IsLast(stream[k]) <=> (o = N)
                /\ (o = 1) => SizeByte(stream[k]) \notin {<<>>, <<0>>}

\* Nothing was written since the frame in flight was sent.
Unanswered == Len(sent) = sent_at_frame

(***************************************************************************)
(* Claims                                                                  *)
(***************************************************************************)

\* C1: for a stream of CRC-valid frames 0..N-1, terminal bit only on N-1,
\* record_size not zero, the transfer never raises, and whenever the frames
\* sent have been answered or the loop has ended, _data is exactly the
\* concatenation of their record-data (payload[3:] of the first frame,
\* payload[2:] of the later ones).
C1_CleanStreamAccumulated ==
  Clean =>
    /\ pc # "raised"
    /\ (frame = NoFrame \/ pc \in {"split", "returned"}) => _data = good

C1_Witness ==
  /\ pc = "returned" /\ Clean /\ Len(stream) = 3
  /\ _data = good /\ Len(good) >= 3

\* C2: at every moment the ACKs written are as many as the CRC-valid frames
\* received, less the one in flight, terminal or failing; a frame is answered
\* with at most one byte; and after a CRC-valid terminal frame nothing at
\* all is written.
C2_OneAckPerFrame ==
  /\ Count(sent, ACK) = valid_seen - (IF Valid(frame) THEN 1 ELSE 0)
  /\ Len(sent) \in {sent_at_frame, sent_at_frame + 1}
  /\ (Valid(frame) /\ IsLast(frame)) => Unanswered

C2_Witness ==
  /\ pc = "returned" /\ valid_seen = 3 /\ Count(sent, ACK) = 2
  /\ Count(sent, NACK) >= 1 /\ Unanswered

\* C3: previous_frame_number is the number of the last ACKed frame; a
\* CRC-valid frame after the first successful one whose number is not that
\* number plus one is never accepted and never answered, and what it raises
\* is the out-of-order ProtocolError; one that is in order raises nothing.
C3_OutOfOrderRejected ==
  /\ last_acked >= 0 => previous_frame_number = last_acked
  /\ (Valid(frame) /\ valid_seen >= 2) =>
       IF FrameNo(frame) = last_acked + 1
       THEN pc # "raised"
       ELSE /\ Unanswered
            /\ pc \notin {"recv_crc", "crc_check", "split", "returned"}
            /\ pc = "raised" => error = OutOfOrder

C3_Witness ==
  /\ pc = "raised" /\ error = OutOfOrder
  /\ Valid(frame) /\ valid_seen >= 2 /\ FrameNo(frame) # last_acked + 1
  /\ Count(sent, ACK) >= 1

\* C4: no stream obtained from a valid stream by swapping two frames is
\* accepted as a successful transfer.
C4_NoSwappedStreamAccepted ==
  SwappedPrefix => pc # "returned"

\* C5, as claimed: every frame that fails the CRC check is answered with a
\* NACK and an increment of retry_count.
C5_EveryCrcFailureNacked ==
  [][(pc = "crc_check" /\ CrcFailed(frame)) =>
       (sent' = Append(sent, NACK) /\ retry_count' = retry_count + 1)]_vars

\* C5, amended: a frame that fails the CRC check is answered with a NACK and
\* an increment of retry_count while retry_count is below 3; with retry_count
\* at 3 the client raises CommunicationError, writes nothing and leaves
\* retry_count alone.
C5_CrcFailureNackedUnlessExhausted ==
  [][(pc = "crc_check" /\ CrcFailed(frame)) =>
       IF retry_count < 3
       THEN /\ sent' = Append(sent, NACK) /\ retry_count' = retry_count + 1
            /\ pc' = "recv_first_char"
       ELSE /\ sent' = sent /\ retry_count' = retry_count
            /\ pc' = "raised" /\ error' = MaxRetries]_vars

C5_Witness ==
  /\ pc = "raised" /\ error = MaxRetries /\ CrcFailed(frame)
  /\ retry_count = 3 /\ TrailingRun(sent, NACK) = 3 /\ Unanswered

\* C6: never more than 3 NACKs in a row; retry_count is the number of NACKs
\* since the last ACK; CommunicationError is raised only for a frame that
\* fails CRC after 3 NACKs, and a frame that fails CRC after 3 NACKs raises
\* nothing but CommunicationError.
C6_RetryBudget ==
  /\ MaxRun(sent, NACK) <= 3
  /\ retry_count = TrailingRun(sent, NACK)
  /\ (pc = "raised" /\ error = MaxRetries) =>
       (CrcFailed(frame) /\ TrailingRun(sent, NACK) = 3)
  /\ (pc = "raised" /\ CrcFailed(frame) /\ TrailingRun(sent, NACK) = 3) =>
       error = MaxRetries

\* C7: when the loop has ended, _data holds the record-data of the CRC-valid
\* frames and nothing else.
C7_OnlyValidDataAccumulated ==
  pc \in {"split", "returned"} => _data = good

\* C8: the out-of-order and the empty-response ProtocolError are raised for
\* CRC-valid frames only.
C8_HeaderErrorsOnlyForValidFrames ==
  (pc = "raised" /\ error \in {OutOfOrder, EmptyResponse}) => Valid(frame)

\* C9: a first CRC-valid frame with record_size 0 at payload offset 2 is never
\* accepted or answered: no ACK is ever written in that transfer, no records
\* are returned, and what is raised is the empty-response ProtocolError.
C9_EmptyResponseRejected ==
  (Valid(frame) /\ valid_seen = 1 /\ SizeByte(frame) = <<0>>) =>
    /\ Unanswered /\ Count(sent, ACK) = 0 /\ records = <<>>
    /\ pc \notin {"recv_crc", "crc_check", "split", "returned"}
    /\ pc = "raised" => error = EmptyResponse

C9_Witness ==
  /\ pc = "raised" /\ error = EmptyResponse
  /\ Valid(frame) /\ valid_seen = 1 /\ SizeByte(frame) = <<0>>
  /\ Count(sent, NACK) >= 1

\* C10: every record returned has exactly record_size bytes.
C10_RecordsHaveRecordSize ==
  pc = "returned" => \A i \in 1..Len(records) : Len(records[i]) = record_size

(***************************************************************************)
(* The request messages                                                    *)
(***************************************************************************)

\* The encoding of a parameter id as the protocol words it: one byte below
\* 239, else the two big-endian bytes of id | 0xF000.
EncodedId(id) ==
  IF id < 239 THEN <<id>> ELSE <<240 + ((id \div 256) % 16), id % 256>>

RECURSIVE EncodedIds(_)
EncodedIds(ids) ==
  IF ids = <<>> THEN <<>> ELSE EncodedId(Head(ids)) \o EncodedIds(Tail(ids))

RECURSIVE EncodedItems(_)
\* Every item: its encoded id, then its value bytes.
EncodedItems(items) ==
  IF items = <<>> THEN <<>>
  ELSE EncodedId(Head(items).id) \o Head(items).data \o EncodedItems(Tail(items))

Built(kind) == pc = "built" /\ request.kind = kind

\* What lies between the size byte and ETX.
Payload(m) == Slice(m, 3, Len(m) - 3)

\* C12: in a WriteRequest every item is its encoded id followed by its value
\* bytes, for ids below 239 and for ids of 239 or more alike, and the size
\* byte is the total byte length of the items.
C12_ItemsCarryIdAndValue ==
  Built("WriteRequest") =>
    /\ Payload(message) = EncodedItems(request.data)
    /\ message[3] = Len(EncodedItems(request.data))

\* C13: ReadRequest(ids).to_bytes is SOH, 0xBF, size, id_bytes, ETX, CRC with
\* the ids encoded in request order (one byte below 239, else two big-endian
\* bytes of id | 0xF000) and size the byte length of id_bytes; ReadRequest([148])
\* begins 01 BF 01 94 03.
C13_ReadRequestLayout ==
  Built("ReadRequest") =>
    LET ids == EncodedIds(request.parameter_ids)
    IN  /\ Slice(message, 0, Len(message) - 2)
             = <<1, 191, Len(ids)>> \o ids \o <<3>>
        /\ Len(message) = Len(ids) + 6
        /\ request.parameter_ids = <<148>>
             => Slice(message, 0, 5) = <<1, 191, 1, 148, 3>>

C13_Witness ==
  Built("ReadRequest") /\ request.parameter_ids = <<239, 148>>

\* C14: the last two bytes of every message built by ReadRequest, WriteRequest
\* or ReadDatabaseRequest are the little-endian CRC-16 of the bytes before
\* them: crc_valid accepts the message.
C14_MessagesCarryTheirCrc ==
  pc = "built" =>
    /\ Len(message) >= 2
    /\ crc_valid(Slice(message, 0, Len(message) - 2),
                 SliceFrom(message, Len(message) - 2))
    /\ LET c == FromBytesLittle(SliceFrom(message, Len(message) - 2))
       IN  <<c % 256, c \div 256>> = crc16(Slice(message, 0, Len(message) - 2))
    /\ (Built("ReadRequest") /\ request.parameter_ids = <<148>>)
         => message = <<1, 191, 1, 148, 3, 90, 116>>

C14_Witness ==
  Built("ReadDatabaseRequest") /\ request.database = "daily"
    /\ request.start # None /\ request.stop = None

\* C15, as the spec words it: a ReadRequest or WriteRequest message is
\* 3 + size + 2 + 2 bytes long, size being the value of its size byte.
C15_LengthAsWorded ==
  (Built("ReadRequest") \/ Built("WriteRequest")) =>
    Len(message) = 3 + message[3] + 2 + 2

\* C15, amended: a ReadRequest or WriteRequest message is 3 + size + 1 + 2
\* bytes long (SOH, opcode and size, the payload, ETX, two CRC bytes).
C15_LengthOfMessage ==
  (Built("ReadRequest") \/ Built("WriteRequest")) =>
    Len(message) = 3 + message[3] + 1 + 2

C15_Witness ==
  Built("WriteRequest") /\ Len(request.data) = 2 /\ message[3] = 5

\* The database index of the protocol.
DatabaseIndex(database) ==
  CASE database = "interval" -> 0 [] database = "hourly" -> 1
    [] database = "daily" -> 2 [] database = "monthly" -> 3
    [] database = "event" -> 4 [] database = "parameter" -> 5

\* C16: ReadDatabaseRequest.to_bytes is SOH, 0xBE, 0x0D, db_byte, F9 FF FF FF,
\* four bytes of start date, four of stop date, ETX and two CRC bytes; db_byte
\* has the database index in its low nibble and bits 7 and 4 clear; 0x0D is the
\* number of bytes between the size byte and ETX.
C16_ReadDatabaseRequestLayout ==
  Built("ReadDatabaseRequest") =>
    /\ Len(message) = 19
    /\ Slice(message, 0, 3) = <<1, 190, 13>>
    /\ message[4] % 16 = DatabaseIndex(request.database)
    /\ (message[4] \div 128) % 2 = 0 /\ (message[4] \div 16) % 2 = 0
    /\ Slice(message, 4, 8) = <<249, 255, 255, 255>>
    /\ request.start = None => Slice(message, 8, 12) = <<0, 0, 0, 0>>
    /\ request.stop = None => Slice(message, 12, 16) = <<0, 0, 0, 0>>
    /\ message[17] = 3
    /\ Len(Payload(message)) = message[3]

C16_Witness ==
  Built("ReadDatabaseRequest") /\ request.database = "monthly"
    /\ request.start = Date(2021, 12, 31, 23, 59, 59) /\ request.stop = None
    /\ Slice(message, 8, 12) = <<251, 126, 63, 87>>

(***************************************************************************)
(* The session                                                             *)
(***************************************************************************)

\* The transport events of the operation called last.
OpLog == SubSeq(log, log_at_call + 1, Len(log))

\* The operation called last has ended.
Ended(name) == op = name /\ pc = "idle"

RECURSIVE Sends(_)
\* How many events of l are sends.
Sends(l) ==
  IF l = <<>> THEN 0
  ELSE (IF Head(l).ev = "send" THEN 1 ELSE 0) + Sends(Tail(l))

RECURSIVE RecvBytes(_)
\* The bytes received in l, in order.
RecvBytes(l) ==
  IF l = <<>> THEN <<>>
  ELSE (IF Head(l).ev = "recv" THEN Head(l).data ELSE <<>>) \o RecvBytes(Tail(l))

\* C11: write_parameters sends exactly one WriteRequest, then reads exactly
\* one byte; it succeeds if and only if that byte is ACK; on any other byte
\* it fails with CommunicationError and sends nothing more.
C11_WriteNeedsAck ==
  /\ op = "write_parameters" => Sends(OpLog) <= 1
  /\ Ended("write_parameters") =>
       /\ Len(OpLog) = 2
       /\ OpLog[1] = Ev("send", WriteRequest_to_bytes(parameters))
       /\ Slice(OpLog[1].data, 0, 2) = <<1, 255>>
       /\ OpLog[2].ev = "recv" /\ Len(OpLog[2].data) = 1
       /\ (error = "") <=> (OpLog[2].data = <<6>>)
       /\ OpLog[2].data # <<6>> => error = WriteNotAccepted

C11_Witness ==
  Ended("write_parameters") /\ OpLog[2] = Ev("recv", <<21>>)
    /\ error = WriteNotAccepted

\* C17: in startup, after the 200 zero wake-up bytes, a 3-byte reply other
\* than 00 00 00 fails with ProtocolError and nothing is written after the
\* wake-up bytes: the sign-on request is never sent.
C17_BadWakeupStopsStartup ==
  (/\ op = "startup" /\ Len(OpLog) >= 3
   /\ OpLog[3].ev = "recv" /\ OpLog[3].data # <<0, 0, 0>>) =>
    /\ OpLog[2] = Ev("send", [i \in 1..200 |-> 0])
    /\ Len(OpLog[3].data) = 3
    /\ pc = "idle" /\ error = NonNullWakeup
    /\ Len(OpLog) = 3

C17_Witness ==
  Ended("startup") /\ Len(OpLog) = 3 /\ OpLog[3] = Ev("recv", <<6, 0, 0>>)
    /\ error = NonNullWakeup

\* The identification line: what simple_read received up to its end, some
\* bytes other than '/', then '/' and the line up to the first LF.
RECURSIVE IsIdentLine(_, _)
IsIdentLine(bytes, started) ==
  IF bytes = <<>> THEN FALSE
  ELSE IF ~started
       THEN IsIdentLine(Tail(bytes), Head(bytes) = 47)
       ELSE IF Head(bytes) = 10 THEN Tail(bytes) = <<>>
            ELSE IsIdentLine(Tail(bytes), TRUE)

\* C18: a successful startup performs exactly: connect; send 200 zero bytes;
\* receive 3 bytes; send "/?!\r\n"; read the identification line from '/' to
\* LF; send 06 30 37 36 0D 0A; receive 6 bytes; send those 6 bytes back
\* unchanged; receive 1 byte.  Every send comes after the reply before it has
\* been received completely.
C18_StartupOrder ==
  (Ended("startup") /\ error = "") =>
    LET n == Len(OpLog)
        line == SubSeq(OpLog, 5, n - 4)
    IN  /\ n >= 10
        /\ OpLog[1] = Ev("connect", <<>>)
        /\ OpLog[2] = Ev("send", [i \in 1..200 |-> 0])
        /\ OpLog[3].ev = "recv" /\ Len(OpLog[3].data) = 3
        /\ OpLog[4] = Ev("send", <<47, 63, 33, 13, 10>>)
        /\ \A i \in 1..Len(line) : line[i].ev = "recv" /\ Len(line[i].data) = 1
        /\ IsIdentLine(RecvBytes(line), FALSE)
        /\ OpLog[n - 3] = Ev("send", <<6, 48, 55, 54, 13, 10>>)
        /\ OpLog[n - 2].ev = "recv" /\ Len(OpLog[n - 2].data) = 6
        /\ OpLog[n - 1] = Ev("send", OpLog[n - 2].data)
        /\ OpLog[n].ev = "recv" /\ Len(OpLog[n].data) = 1
        /\ rx = <<>>

C18_Witness ==
  Ended("startup") /\ error = "" /\ Len(OpLog) = 11
    /\ OpLog[9] = Ev("recv", <<1, 80, 48, 2, 40, 41>>)

\* C19: startup reaches the authenticated state only if the byte received
\* after the password echo is ACK; on any other byte it fails with
\* ProtocolError.
C19_SignOnNeedsAck ==
  (/\ Ended("startup") /\ Len(OpLog) >= 10
   /\ OpLog[Len(OpLog) - 1].ev = "send" /\ OpLog[Len(OpLog)].ev = "recv") =>
    /\ (error = "") <=> (OpLog[Len(OpLog)].data = <<6>>)
    /\ OpLog[Len(OpLog)].data # <<6>> => error = NoSignOnAck

C19_Witness ==
  Ended("startup") /\ Len(OpLog) >= 10 /\ OpLog[Len(OpLog)] = Ev("recv", <<0>>)
    /\ error = NoSignOnAck

\* C20: shutdown sends exactly 01 42 30 03 21 31 and then disconnects the
\* transport, in that order; it waits for no reply and writes nothing after
\* the disconnect.
C20_ShutdownBreaksAndDisconnects ==
  /\ op = "shutdown" =>
       /\ Len(OpLog) <= 2
       /\ Len(OpLog) >= 1 => OpLog[1] = Ev("send", <<1, 66, 48, 3, 33, 49>>)
       /\ Len(OpLog) = 2 => OpLog[2] = Ev("disconnect", <<>>)
  /\ Ended("shutdown") => Len(OpLog) = 2 /\ error = ""

C20_Witness ==
  Ended("shutdown") /\ Len(OpLog) = 2 /\ nops = 2

C22_OperationsOnlyWhenAuthenticated ==
  (/\ op \in {"read_parameters", "write_parameters", "read_database"}
   /\ Sends(OpLog) > 0) => authenticated

\* The kind of an exception: its class.
Category(e) ==
  IF e \in ProtocolErrors THEN "ProtocolError"
  ELSE IF e \in CommunicationErrors THEN "CommunicationError"
  ELSE e

\* C23: the error category produced inside read_parameters (a framing or CRC
\* violation: ProtocolError) and inside read_database (retries exhausted:
\* CommunicationError; out of order or empty: ProtocolError) is the category
\* the caller receives, never a different or more general one.
C23_ErrorCategoryUnchanged ==
  [][((pc = "read_except" /\ pc' = "idle") \/ (pc = "raised" /\ pc' = "failed"))
       => Category(error') = Category(error)]_vars

\* The call made has returned or raised.
Done(fn) == pc = "done" /\ call.fn = fn

\* The four bytes of second | minute << 6 | hour << 12 | day << 17 |
\* month << 22 | (year - 2000) << 26, little-endian, bit field by bit field.
PackedBytes(d) ==
  <<d.second + (d.minute % 4) * 64,
    d.minute \div 4 + (d.hour % 16) * 16,
    d.hour \div 16 + d.day * 2 + (d.month % 4) * 64,
    d.month \div 4 + (d.year - 2000) * 4>>

\* C24: for a datetime d in [2000-01-01 00:00:00, 2063-12-31 23:59:59],
\* date_to_byte(d) is the 4 bytes of the packed integer, little-endian, and
\* byte_to_date of them is d again.
C24_DateRoundTrip ==
  (Done("date_to_byte") /\ call.date # None
     /\ call.date.year \in 2000..2063) =>
    /\ result = Returns("bytes", PackedBytes(call.date))
    /\ Len(result.v) = 4
    /\ byte_to_date(result) = Returns("datetime", call.date)

C24_Witness ==
  /\ Done("date_to_byte")
  /\ call.date = Date(2063, 12, 31, 23, 59, 59)
  /\ result = Returns("bytes", <<251, 126, 63, 255>>)
  /\ byte_to_date(result) = Returns("datetime", call.date)

\* C25: an absent date encodes as four zero bytes, and four zero bytes decode
\* to the absent value, not to an error and not to a datetime.
C25_AbsentDate ==
  /\ (Done("date_to_byte") /\ call.date = None) =>
       result = Returns("bytes", <<0, 0, 0, 0>>)
  /\ (Done("byte_to_date") /\ call.in_data = Returns("bytes", <<0, 0, 0, 0>>))
       => result = Absent

\* width(K) bytes of 0xFF.
AllOnes(cls) == [i \in 1..cls_length(cls) |-> 255]

\* C26: for every kind K of data.py, width(K) bytes of 0xFF decode to the
\* absent value, and the absent value encodes as width(K) bytes of 0xFF.
C26_NoneSentinel ==
  /\ (Done("from_bytes") /\ call.cls # "Index9"
        /\ call.in_data = AllOnes(call.cls)) => result = Absent
  /\ (Done("to_bytes") /\ call.value = Absent) =>
       result = Returns("bytes", AllOnes(call.cls))

\* The non-absent values of a kind's domain: the integers of its width, the
\* Latin-1 texts of up to 8 characters, the hundredths of 16 signed bits.
InDomain(cls, value) ==
  CASE cls \in IntegerClasses ->
         value.t = "int" /\ int_fits(value.v, cls_length(cls))
    [] cls = "CorusString" ->
         /\ value.t = "str" /\ Len(value.v) <= 8
         /\ \A i \in 1..Len(value.v) : value.v[i] <= 255
    [] cls = "Float1" ->
         /\ value.t = "Decimal"
         /\ value.v.int.hi = 0 /\ value.v.int.lo < 327
         /\ value.v.frac8 % 1000000 = 0
    [] OTHER -> FALSE

\* C27: for every kind and every non-absent value v of its domain, encoding
\* v gives exactly width(kind) bytes and decoding them gives v again.
C27_CodecRoundTrip ==
  (Done("to_bytes") /\ InDomain(call.cls, call.value)) =>
    /\ result.t = "bytes"
    /\ Len(result.v) = cls_length(call.cls)
    /\ from_bytes(call.cls, result.v) = call.value

\* whole + (q * 100000 + r) / 100000000 as a Decimal, nothing dropped.
Exact(whole, dec) ==
  Decimal(FALSE, int_add(whole, dec.q \div 1000),
          (dec.q % 1000) * 100000 + dec.r)

\* C28: for every 8 bytes, Index.from_bytes is the little-endian value of
\* bytes 0..3 plus the little-endian value of bytes 4..7 / 100000000, with no
\* fractional digit lost; 14 2E 00 00 80 1D 2C 04 gives 11796.7.
C28_IndexDecodeExact ==
  (Done("from_bytes") /\ call.cls = "Index" /\ Len(call.in_data) = 8) =>
    /\ result =
         Returns("Decimal",
                 Exact(PyInt(call.in_data[4],
                             call.in_data[1] + 256 * call.in_data[2]
                               + 65536 * call.in_data[3]),
                       DivMod100000(SubSeq(call.in_data, 5, 8))))
    /\ call.in_data = <<20, 46, 0, 0, 128, 29, 44, 4>> =>
         result = Returns("Decimal", Decimal(FALSE, PyInt(0, 11796), 70000000))

\* C29: for every 9 bytes, Index9.from_bytes is the little-endian 40-bit
\* value of bytes 0..4 plus the little-endian value of bytes 5..8 /
\* 100000000; 14 2E 00 00 00 80 1D 2C 04 gives 11796.7.
C29_Index9Decode ==
  (Done("from_bytes") /\ call.cls = "Index9" /\ Len(call.in_data) = 9) =>
    /\ result =
         Returns("Decimal",
                 Exact(PyInt(call.in_data[4] + 256 * call.in_data[5],
                             call.in_data[1] + 256 * call.in_data[2]
                               + 65536 * call.in_data[3]),
                       DivMod100000(SubSeq(call.in_data, 6, 9))))
    /\ call.in_data = <<20, 46, 0, 0, 0, 128, 29, 44, 4>> =>
         result = Returns("Decimal", Decimal(FALSE, PyInt(0, 11796), 70000000))

C29_Witness ==
  /\ Done("from_bytes") /\ call.cls = "Index9"
  /\ call.in_data = <<0, 0, 0, 0, 1, 0, 0, 0, 0>>
  /\ result = Returns("Decimal", Decimal(FALSE, PyInt(256, 0), 0))

\* The sum of the widths of the first i descriptors.
Offset(parsing_config, i) == parser_length(SubSeq(parsing_config, 1, i))

\* C30: the parser fails with ProtocolError, with no partial result, exactly
\* when the length of the payload is not the sum of the descriptors' widths;
\* otherwise descriptor i is decoded from the slice that starts at the sum of
\* the widths before it and has its own width.
C30_ParserLengthCheck ==
  Done("parse") =>
    LET config == call.parsing_config
    IN  IF Len(call.in_data) # parser_length(config)
        THEN result = Raises("ProtocolError")
        ELSE /\ result.t = "dict"
             /\ \A i \in 1..Len(config) :
                  (\A j \in (i + 1)..Len(config) :
                      config[j].name # config[i].name) =>
                    result.v[config[i].name] =
                      from_bytes(config[i].data_class,
                                 SubSeq(call.in_data,
                                        Offset(config, i - 1) + 1,
                                        Offset(config, i)))

\* C31: when read_database fails for an unknown database name, a missing
\* pulse weight or a missing database layout, no byte has been sent to or
\* read from the device by that call, whatever pulse weight and layout the
\* client has stored.
C31_ConfigurationErrorsBeforeTransport ==
  (/\ call.fn = "read_database"
   /\ result \in {Raises(UnknownDatabase), Raises(MissingPulseWeight),
                  Raises(MissingLayout)}) => log = <<>>

\* C32: recv(n) on the TCP transport returns exactly n bytes or raises an
\* error; it never returns fewer than n bytes.
C32_RecvExactlyN ==
  Done("recv") => (result.t = "raise" \/ Len(result.v) = call.chars)

RECURSIVE reference_shift(_, _)
\* The reference CRC-16, polynomial 0x8005, no reflection: eight shifts of a
\* 16-bit register, masked to 16 bits after every shift.
reference_shift(reg, n) ==
  IF n = 0 THEN reg
  ELSE IF reg \div 32768 = 1
       THEN reference_shift(XorInt((reg * 2) % 65536, 32773), n - 1)
       ELSE reference_shift((reg * 2) % 65536, n - 1)

RECURSIVE reference_crc(_, _)
\* The reference CRC-16 of data, from the register value reg.
reference_crc(reg, data) ==
  IF data = <<>> THEN reg
  ELSE reference_crc(reference_shift(XorInt(reg, Head(data) * 256), 8),
                     Tail(data))

\* C33: crc16, which masks to 16 bits once at the end and tests bit 15 of the
\* unmasked accumulator, returns for every byte sequence the reference CRC-16
\* (polynomial 0x8005, initial value 0, masked after every shift), low byte
\* first.
C33_Crc16IsReference ==
  Done("crc16") =>
    LET ref == reference_crc(0, call.data)
    IN  result = Returns("bytes", <<ref % 256, ref \div 256>>)

\* crc16 has run on bytes that push the accumulator past 16 bits and apply
\* the polynomial.
C33_Witness ==
  /\ Done("crc16") /\ Len(call.data) = MaxData /\ call.data[1] = 255
  /\ crc16_loop([hi |-> <<>>, lo |-> 0], call.data).hi # <<>>
  /\ result.v # <<0, 0>>

\* C34: the BREAK frame shutdown sends is valid under the client's own CRC:
\* it is six bytes, 01 42 30 03 and then 21 31, the crc16 of those four
\* bytes, low byte first.
C34_BreakFrameCrc ==
  (op = "shutdown" /\ Len(OpLog) >= 1) =>
    LET msg == OpLog[1].data
    IN  /\ OpLog[1].ev = "send"
        /\ Slice(msg, 0, 4) = <<1, 66, 48, 3>>
        /\ SliceFrom(msg, 4) = <<33, 49>>
        /\ SliceFrom(msg, 4) = crc16(Slice(msg, 0, 4))
        /\ crc_valid(Slice(msg, 0, 4), SliceFrom(msg, 4))

\* shutdown has sent its frame.
C34_Witness ==
  op = "shutdown" /\ pc = "disconnect" /\ Len(OpLog) = 1

\* _read_database_data has returned, or read_database has raised.
Terminated == pc \in {"returned", "failed"}

\* C35: the database transfer loop always terminates: whatever well-framed
\* frames the device keeps supplying, _read_database_data returns or raises
\* after finitely many of them (fewer than MaxStream here, so the device is
\* never the one to stop).
C35_TransferTerminates ==
  <>Terminated /\ [](nframes < MaxStream)

\* The longest transfer: every frame position used its three retries, and the
\* frame after the one numbered 0x7FFF ended it.
C35_Witness ==
  /\ Terminated /\ nframes = 9 /\ Len(sent) = 8
  /\ previous_frame_number = 32767

\* C36: the ordering check does not wrap: once a CRC-valid, non-terminal
\* frame numbered 0x7FFF has been accepted, no later frame gets as far as its
\* CRC, whatever its number (0 included): the next frame is rejected with
\* ProtocolError, out of order, and is neither ACKed nor NACKed.
C36_NoWrapAround ==
  previous_frame_number = 32767 =>
    /\ pc \notin {"recv_crc", "crc_check", "split", "returned"}
    /\ pc = "raised" => error = OutOfOrder /\ Len(sent) = sent_at_frame
    /\ pc = "failed" => error = Wrapped(OutOfOrder)

\* The frame numbered 0 that follows the frame numbered 0x7FFF is rejected.
C36_Witness ==
  /\ previous_frame_number = 32767 /\ last_acked = 32767
  /\ pc = "raised" /\ error = OutOfOrder
  /\ FrameNo(frame) = 0 /\ Valid(frame)

\* C37: after the ReadDatabaseRequest everything the client writes is a
\* single ACK or NACK byte, and it writes it only once a whole frame, its CRC
\* included, has been read; a step that raises writes nothing, and nothing
\* has been written for the frame it raises on.
C37_WritesOnlyAfterWholeFrame ==
  [][/\ sent' # sent =>
          /\ \E b \in {ACK, NACK} : sent' = Append(sent, b)
          /\ pc = "crc_check" /\ pc' = "recv_first_char"
          /\ rx = <<>> /\ in_bytes \o crc = Wire[frame]
          /\ Len(sent) = sent_at_frame
     /\ (pc' = "raised" /\ pc # "raised") =>
          sent' = sent /\ Len(sent) = sent_at_frame]_vars

\* An ACK and a NACK have been written and a later frame has raised.
C37_Witness ==
  /\ pc = "raised" /\ error = OutOfOrder
  /\ \E i, j \in 1..Len(sent) : sent[i] = ACK /\ sent[j] = NACK

\* C38: the parameter id encoding of ReadRequest and WriteData is injective
\* over 0..65535: two different ids never encode to the same bytes, so a
\* ReadRequest for two different ids is not the ReadRequest for the same ids
\* the other way round.
C38_IdEncodingInjective ==
  (/\ pc = "built" /\ request.kind = "ReadRequest"
   /\ Len(request.parameter_ids) = 2
   /\ request.parameter_ids[1] # request.parameter_ids[2]) =>
    LET a == request.parameter_ids[1]
        b == request.parameter_ids[2]
    IN  /\ id_to_bytes(a) # id_to_bytes(b)
        /\ message # ReadRequest_to_bytes(<<b, a>>)

\* C39: in each built-in parsing config the field names are pairwise
\* distinct, so that parse returns a map with one entry per item of the
\* config and no field overwrites another.
C39_OneEntryPerField ==
  (Done("parse") /\ call.parsing_config \in BuiltInConfigs) =>
    /\ \A i, j \in 1..Len(call.parsing_config) :
         i # j => call.parsing_config[i].name # call.parsing_config[j].name
    /\ result.t = "dict" =>
         Cardinality(DOMAIN result.v) = Len(call.parsing_config)

====
